---- MODULE Spec2Model ----
(***************************************************************************)
(* State-machine model of the UI QA agent (amitwa1/ui-qa-agent):           *)
(*   - the Report Publisher of src/src/github/pr-handler.ts,               *)
(*   - the Screenshot/Design Matcher of the two AI adapters                *)
(*     (BedrockClient in src/unnamed/part_006, AzureOpenAIClient in        *)
(*     src/src/index.ts),                                                  *)
(*   - the Comparison Aggregator (compareUIScreenshot /                    *)
(*     convertToLegacyFormat) of the same two adapters.                    *)
(*   - withRetry of the Figma client (src/src/figma/client.ts),            *)
(*   - the Mode Orchestrator (src/src/index.ts and src/dist/index.js),     *)
(*   - the annotation renderer (src/src/utils/image-annotator.ts),         *)
(*   - the design cache (src/src/figma/cache.ts) and its use by            *)
(*     FigmaClient.getImagesFromUrl.                                       *)
(* Each part has its own variables and its own specification; while one    *)
(* part runs the others stay in their initial state.                       *)
(***************************************************************************)
EXTENDS Integers, Sequences, FiniteSets, Bags, TLC

(***************************************************************************)
(* Bounds of the model.                                                    *)
(***************************************************************************)
MaxShots == 2
MaxDesigns == 2
MaxPairs == 2
MaxComps == 1
MaxFindings == 2
MaxFound == 2
MaxTotal == 2
MaxInitComments == 1
NPublishers == 2
MaxOps == 3
MaxTickets == 2
MaxLinks == 2
MaxThread == 2
MaxIssues == 2
MaxNodes == 2
MaxClock == 2
NProcs == 2

\* page size of issues.listComments when the call passes no per_page
PerPage == 30

(***************************************************************************)
(* JavaScript numbers as they come out of Number(x) on a JSON value.       *)
(* <<"int", k>> is the integer k, <<"half", k>> the non-integer k + 1/2,   *)
(* <<"nan", 0>> is NaN (Number(undefined), Number("abc"), ...).            *)
(***************************************************************************)
JsInt(k) == <<"int", k>>
JsHalf(k) == <<"half", k>>
JsNaN == <<"nan", 0>>

\* v >= 0 for a JS number v; every comparison with NaN is false
JsGeZero(v) == v[1] # "nan" /\ v[2] >= 0

\* JsLess with <= in place of <
JsLessOrEqual(v, n) == v[1] # "nan" /\ v[2] <= n

\* v < n for a JS number v and an integer n (k + 1/2 < n iff k < n)
JsLess(v, n) == v[1] # "nan" /\ v[2] < n

\* providers that createAIClient can construct
Providers == {"bedrock", "azure"}

VARIABLES
  provider,      \* the AI adapter in use
  nShots,        \* screenshots.length of the current matcher call
  nDesigns,      \* figmaDesigns.length of the current matcher call
  aiReply,       \* what invokeModelWithImages did in the matcher call
  aiCalls,       \* number of invokeModelWithImages calls of the matcher call
  matchResult,   \* the ScreenshotMatchResult returned, NoResult before
  mpc,           \* "ready" before the matcher call, "done" after
  cmpReply,      \* what invokeModelWithImages did in the comparison call
  cmpResult,     \* the UIComparisonResult returned (or the raised error)
  cpc,           \* "ready" before the comparison call, "done" after
  comments,      \* the PR's comments, oldest first; a comment's id is its position
  pubLog,        \* the operations performed on the PR so far, oldest first
  publishers,    \* publish: position and locals of every concurrent publish call
  attempt,       \* withRetry: the loop variable attempt
  fnCalls,       \* withRetry: number of times fn() was invoked
  sleeps,        \* withRetry: the waitTime of every sleep so far, in ms
  lastStatus,    \* withRetry: HTTP status of the last answer, 0 before
  rpc,           \* withRetry: "call", "sleep", "returned" or "thrown"
  mode,          \* run: config.mode of the invocation
  build,         \* run: the orchestrator executing, "src" (src/src/index.ts)
                 \*      or "dist" (src/dist/index.js)
  missing,       \* run: the credential absent from the configuration, or "none"
  apc,           \* run: position of the invocation
  outcome,       \* run: "running", "completed" or "failed" (core.setFailed)
  calls,         \* run: the external calls made so far
  jiraTicketKey, \* run: the local jiraTicketKey
  uniqueFigmaLinks, \* run: the deduplicated, validated design links
  hasFigmaLinks, \* run: the output has_figma_links, "unset" before
  prThread,      \* run: the comments read from the PR, while in use
  triggerId,     \* run: config.commentId as read when the screenshots are
                 \*      picked, 0 when not given
  screenshotUrls,\* run: the local screenshotUrls
  figmaImages,   \* run: the local figmaImages, each by the link it came from
  screenshots,   \* run: length of the array of downloaded screenshots
  figmaDesigns,  \* run: length of the array figmaDesigns
  runMatches,    \* run: matchResult.matches, <<>> when no Matcher ran
  todo,          \* run: the pairs the comparison loop has still to visit
  runResults,    \* run: the local results of analyze
  prReport,      \* run: the results published in the PR comment, or "none"
  commitStatus,  \* run: the commit status set on the head commit, or NoStatus
  jiraEcho,      \* run: "none", "posted" or "failed"
  succeededLinks,  \* run: the distinct links of the tickets read without error
  succeededImages, \* run: the images of the design links resolved without error
  annImage,      \* annotate: the argument imageBase64
  annIssues,     \* annotate: the argument issues
  annResult,     \* annotate: the AnnotationResult returned, NoAnnotation before
  annPc,         \* annotate: "ready" before the call, "done" after
  now,           \* cache: Date.now(), in units of the model
  files,         \* cache: content of every file of the cache directory
  lastGet,       \* cache: the last call of FigmaCache.get and what it returned
  procs,         \* cache: position and locals of every concurrent invocation
  prDescription,     \* rederive: the ticket URLs of one PR description
  detectJiraTicket,  \* rederive: the jira_ticket output of detect, "unset" before
  analyzeJiraTarget  \* rederive: the ticket analyze comments on, "unset" before

matchVars == <<nShots, nDesigns, aiReply, aiCalls, matchResult, mpc>>
cmpVars == <<cmpReply, cmpResult, cpc>>

pubVars == <<comments, pubLog, publishers>>

retryVars == <<attempt, fnCalls, sleeps, lastStatus, rpc>>

runVars == <<mode, build, missing, apc, outcome, calls, jiraTicketKey, uniqueFigmaLinks,
             hasFigmaLinks, prThread, triggerId, screenshotUrls, figmaImages,
             screenshots, figmaDesigns, runMatches,
             todo, runResults, prReport, commitStatus, jiraEcho,
             succeededLinks, succeededImages>>

annVars == <<annImage, annIssues, annResult, annPc>>

cacheVars == <<now, files, lastGet, procs>>

deriveVars == <<prDescription, detectJiraTicket, analyzeJiraTarget>>

vars == <<provider, matchVars, cmpVars, pubVars, retryVars, runVars, annVars, cacheVars,
          deriveVars>>

NoResult == [matches |-> <<>>, unmatchedScreenshots |-> <<>>,
             unmatchedFigmaDesigns |-> <<>>, none |-> TRUE]
NoReply == [kind |-> "notcalled", pairs |-> <<>>]

(***************************************************************************)
(* The AI Collaborator's answers to the matching prompt.                   *)
(*   error    : invokeModelWithImages throws                               *)
(*   nojson   : the text has no {...} span                                 *)
(*   badjson  : the {...} span is not valid JSON (JSON.parse throws)       *)
(*   badshape : valid JSON whose "matches" cannot be iterated              *)
(*   json     : valid JSON with the list "pairs" as its matches            *)
(***************************************************************************)
RawIdx == {JsInt(-1), JsInt(0), JsInt(1), JsInt(2), JsHalf(0)}
RawConf == {JsNaN, JsInt(70)}
RawPairs == [screenshotIndex : RawIdx, figmaIndex : RawIdx, confidence : RawConf]

SeqsUpTo(S, n) == UNION {[1..k -> S] : k \in 0..n}

MatchReplies ==
  {[kind |-> k, pairs |-> <<>>] : k \in {"error", "nojson", "badjson", "badshape"}}
  \cup {[kind |-> "json", pairs |-> ps] : ps \in SeqsUpTo(RawPairs, MaxPairs)}

\* i, i+1, ..., j as a sequence
Range(i, j) == [k \in 1..(IF j >= i THEN j - i + 1 ELSE 0) |-> i + k - 1]

Min(a, b) == IF a < b THEN a ELSE b
Max(a, b) == IF a > b THEN a ELSE b

\* createFallbackMatching pairing every screenshot below screenshotCount
FallbackPairsAllScreenshots(screenshotCount, figmaCount) ==
  [matches |-> [i \in 1..screenshotCount |->
                     [screenshotIndex |-> JsInt(i - 1), figmaIndex |-> JsInt(i - 1),
                      confidence |-> 50, reasoning |-> "fallback"]],
   unmatchedScreenshots |-> <<>>,
   unmatchedFigmaDesigns |-> Range(screenshotCount, figmaCount - 1),
   none |-> FALSE]

(***************************************************************************)
(* createFallbackMatching(screenshotCount, figmaCount)                     *)
(***************************************************************************)
createFallbackMatching(screenshotCount, figmaCount) ==
  LET minCount == Min(screenshotCount, figmaCount)
  IN [matches |-> [i \in 1..minCount |->
                     [screenshotIndex |-> JsInt(i - 1), figmaIndex |-> JsInt(i - 1),
                      confidence |-> 50, reasoning |-> "fallback"]],
      unmatchedScreenshots |-> Range(minCount, screenshotCount - 1),
      unmatchedFigmaDesigns |-> Range(minCount, figmaCount - 1),
      none |-> FALSE]

\* Math.min(100, Math.max(0, Number(match.confidence) || 50)):
\* NaN and 0 are falsy, so both become 50
ClampConfidence(c) ==
  LET n == IF c[1] = "nan" \/ c[2] = 0 THEN 50 ELSE c[2]
  IN Min(100, Max(0, n))

\* PairAccepted without the two used-index checks
PairAcceptedNoDedup(p, used, screenshotCount, figmaCount) ==
  /\ JsGeZero(p.screenshotIndex) /\ JsLess(p.screenshotIndex, screenshotCount)
  /\ JsGeZero(p.figmaIndex) /\ JsLess(p.figmaIndex, figmaCount)

\* the validation guard of the sanitising loop
PairAccepted(p, used, screenshotCount, figmaCount) ==
  /\ JsGeZero(p.screenshotIndex) /\ JsLess(p.screenshotIndex, screenshotCount)
  /\ JsGeZero(p.figmaIndex) /\ JsLess(p.figmaIndex, figmaCount)
  /\ p.screenshotIndex \notin used.s
  /\ p.figmaIndex \notin used.f

\* the sanitising loop of parseMatchingResponse over parsed.matches:
\* acc = [matches, s (usedScreenshots), f (usedFigmas)]
RECURSIVE Sanitize(_, _, _, _)
Sanitize(pairs, acc, screenshotCount, figmaCount) ==
  IF pairs = <<>> THEN acc
  ELSE LET p == Head(pairs)
       IN IF PairAccepted(p, acc, screenshotCount, figmaCount)
          THEN Sanitize(Tail(pairs),
                 [matches |-> Append(acc.matches,
                     [screenshotIndex |-> p.screenshotIndex,
                      figmaIndex |-> p.figmaIndex,
                      confidence |-> ClampConfidence(p.confidence),
                      reasoning |-> "ai"]),
                  s |-> acc.s \cup {p.screenshotIndex},
                  f |-> acc.f \cup {p.figmaIndex}],
                 screenshotCount, figmaCount)
          ELSE Sanitize(Tail(pairs), acc, screenshotCount, figmaCount)

\* the indices i in 0..count-1 with !used.has(i), in increasing order
RECURSIVE UnusedFrom(_, _, _)
UnusedFrom(i, count, used) ==
  IF i >= count THEN <<>>
  ELSE IF JsInt(i) \in used THEN UnusedFrom(i + 1, count, used)
       ELSE <<i>> \o UnusedFrom(i + 1, count, used)

\* the Bedrock adapter falls back when the sanitised list is empty and both
\* sides are non-empty; the Azure adapter has no such check
EmptyMatchFallback(prov, matches, screenshotCount, figmaCount) ==
  prov = "bedrock" /\ matches = <<>> /\ screenshotCount > 0 /\ figmaCount > 0

(***************************************************************************)
(* parseMatchingResponse(response, screenshotCount, figmaCount)            *)
(***************************************************************************)
parseMatchingResponse(prov, reply, screenshotCount, figmaCount) ==
  IF reply.kind # "json"
  THEN createFallbackMatching(screenshotCount, figmaCount)
  ELSE LET acc == Sanitize(reply.pairs, [matches |-> <<>>, s |-> {}, f |-> {}],
                           screenshotCount, figmaCount)
       IN IF EmptyMatchFallback(prov, acc.matches, screenshotCount, figmaCount)
          THEN createFallbackMatching(screenshotCount, figmaCount)
          ELSE [matches |-> acc.matches,
                unmatchedScreenshots |-> UnusedFrom(0, screenshotCount, acc.s),
                unmatchedFigmaDesigns |-> UnusedFrom(0, figmaCount, acc.f),
                none |-> FALSE]

\* DirectMatch with the early return missing
DirectMatchMissing(screenshotCount, figmaCount) ==
  screenshotCount = 1 /\ figmaCount = 1 /\ FALSE

\* the early return for one screenshot and one design
DirectMatch(screenshotCount, figmaCount) ==
  screenshotCount = 1 /\ figmaCount = 1

\* the early return for one screenshot and several designs (Bedrock only)
FirstDesignMatch(prov, screenshotCount, figmaCount) ==
  prov = "bedrock" /\ screenshotCount = 1 /\ figmaCount > 1

\* TRUE iff matchScreenshotsToDesigns reaches invokeModelWithImages
InvokesAI(prov, screenshotCount, figmaCount) ==
  /\ ~DirectMatch(screenshotCount, figmaCount)
  /\ ~FirstDesignMatch(prov, screenshotCount, figmaCount)

(***************************************************************************)
(* matchScreenshotsToDesigns(screenshots, figmaDesigns)                    *)
(***************************************************************************)
matchScreenshotsToDesigns(prov, screenshotCount, figmaCount, reply) ==
  IF DirectMatch(screenshotCount, figmaCount)
  THEN [matches |-> <<[screenshotIndex |-> JsInt(0), figmaIndex |-> JsInt(0),
                       confidence |-> 100, reasoning |-> "single"]>>,
        unmatchedScreenshots |-> <<>>,
        unmatchedFigmaDesigns |-> <<>>,
        none |-> FALSE]
  ELSE IF FirstDesignMatch(prov, screenshotCount, figmaCount)
  THEN [matches |-> <<[screenshotIndex |-> JsInt(0), figmaIndex |-> JsInt(0),
                       confidence |-> 80, reasoning |-> "first-design"]>>,
        unmatchedScreenshots |-> <<>>,
        unmatchedFigmaDesigns |-> [i \in 1..(figmaCount - 1) |-> i],
        none |-> FALSE]
  ELSE IF reply.kind = "error"
  THEN createFallbackMatching(screenshotCount, figmaCount)
  ELSE parseMatchingResponse(prov, reply, screenshotCount, figmaCount)

(***************************************************************************)
(* The AI Collaborator's answers to the comparison prompt.                 *)
(*   error     : invokeModelWithImages throws                              *)
(*   nojson    : the text has no {...} span                                *)
(*   badjson   : the {...} span is not valid JSON (truncated, malformed)   *)
(*   badstruct : valid JSON without reference_components or summary, so    *)
(*               that convertToLegacyFormat throws a TypeError             *)
(*   json      : valid JSON of the UXValidationResult shape, "detail"      *)
(* A list of findings is modelled by its length: the loops of              *)
(* convertToLegacyFormat push one issue per element.                       *)
(***************************************************************************)
Statuses == {"pass", "warning", "fail"}
ReportedSeverities == {"critical", "major", "minor"}

\* the number of findings in the four lists of a component
ComponentFindings(c) ==
  c.grammar_issues + c.major_color_differences
    + c.typography_issues + c.missing_fields

Components ==
  {c \in [found_in_input : BOOLEAN, missing_component : BOOLEAN,
          grammar_issues : 0..MaxFindings, major_color_differences : 0..MaxFindings,
          typography_issues : 0..MaxFindings, missing_fields : 0..MaxFindings] :
     ComponentFindings(c) <= MaxFindings}

RECURSIVE ListFindings(_)
ListFindings(comps) ==
  IF comps = <<>> THEN 0
  ELSE ComponentFindings(Head(comps)) + ListFindings(Tail(comps))

\* global_issues with at most n findings over its three lists
GlobalIssues(n) ==
  {g \in [color_issues : 0..n, grammar_issues : 0..n, typography_issues : 0..n] :
     g.color_issues + g.grammar_issues + g.typography_issues <= n}

\* the findings of a response: at most MaxComps reference components and at
\* most MaxFindings findings over all lists of the response
Findings ==
  UNION {UNION {UNION {
    {[reference_components |-> comps, extra_components_in_input |-> extras,
      overlapping_elements |-> overlaps, global_issues |-> g] :
       g \in GlobalIssues(MaxFindings - ListFindings(comps)
                            - Len(extras) - Len(overlaps))} :
    overlaps \in SeqsUpTo(ReportedSeverities,
                          MaxFindings - ListFindings(comps) - Len(extras))} :
    extras \in SeqsUpTo(ReportedSeverities, MaxFindings - ListFindings(comps))} :
    comps \in {cs \in SeqsUpTo(Components, MaxComps) :
                 ListFindings(cs) <= MaxFindings}}

Summaries ==
  [total_reference_components : 0..MaxTotal, components_found : 0..MaxFound]

\* the parsed UXValidationResult with findings f, summary s, overall_status st
DetailedResult(f, s, st) ==
  [reference_components |-> f.reference_components,
   extra_components_in_input |-> f.extra_components_in_input,
   global_issues |-> f.global_issues,
   overlapping_elements |-> f.overlapping_elements,
   summary |-> s,
   overall_status |-> st]

NoDetail ==
  [reference_components |-> <<>>, extra_components_in_input |-> <<>>,
   global_issues |-> [color_issues |-> 0, grammar_issues |-> 0,
                      typography_issues |-> 0],
   overlapping_elements |-> <<>>,
   summary |-> [total_reference_components |-> 0, components_found |-> 0],
   overall_status |-> "warning"]

FailedReplies ==
  {[kind |-> k, detail |-> NoDetail] :
     k \in {"error", "nojson", "badjson", "badstruct"}}

NoCmpReply == [kind |-> "notcalled", detail |-> NoDetail]
NoCmpResult == [raised |-> FALSE, overallMatch |-> "none", matchPercentage |-> 0,
                issues |-> <<>>, summary |-> "none"]

Issue(sev, cat) == [severity |-> sev, category |-> cat]

\* n copies of x
Repeat(x, n) == [i \in 1..n |-> x]

\* the body of the loop over reference_components for one component
ComponentIssues(comp) ==
  (IF ~comp.found_in_input \/ comp.missing_component
   THEN <<Issue("critical", "missing_element")>> ELSE <<>>)
  \o Repeat(Issue("major", "wrong_content"), comp.grammar_issues)
  \o Repeat(Issue("major", "wrong_style"), comp.major_color_differences)
  \o Repeat(Issue("minor", "wrong_style"), comp.typography_issues)
  \o Repeat(Issue("major", "missing_element"), comp.missing_fields)

RECURSIVE AllComponentIssues(_)
AllComponentIssues(comps) ==
  IF comps = <<>> THEN <<>>
  ELSE ComponentIssues(Head(comps)) \o AllComponentIssues(Tail(comps))

\* severity === 'major' ? 'major' : 'minor'
ReportedSeverity(sev) == IF sev = "major" THEN "major" ELSE "minor"

ExtraIssues(extras) ==
  [i \in DOMAIN extras |-> Issue(ReportedSeverity(extras[i]), "extra_element")]

OverlapIssues(overlaps) ==
  [i \in DOMAIN overlaps |-> Issue(ReportedSeverity(overlaps[i]), "wrong_position")]

\* the global_issues block exists in the Bedrock adapter only
GlobalIssueList(prov, g) ==
  IF prov = "bedrock"
  THEN Repeat(Issue("major", "wrong_style"), g.color_issues)
       \o Repeat(Issue("major", "wrong_content"), g.grammar_issues)
       \o Repeat(Issue("minor", "wrong_style"), g.typography_issues)
  ELSE <<>>

\* Math.round((found / total) * 100) for found >= 0, total > 0:
\* halves round up
RoundPercent(found, total) == (200 * found + total) \div (2 * total)

\* matchPercentage with totalComponents = total_reference_components || 1
MatchPercentage(summary) ==
  LET totalComponents == IF summary.total_reference_components = 0 THEN 1
                         ELSE summary.total_reference_components
  IN RoundPercent(summary.components_found, totalComponents)

\* overallMatch: detailedResult.overall_status
OverallMatch(detailedResult, matchPercentage, issues) ==
  detailedResult.overall_status

(***************************************************************************)
(* convertToLegacyFormat(detailedResult)                                   *)
(***************************************************************************)
convertToLegacyFormat(prov, detailedResult) ==
  LET issues == AllComponentIssues(detailedResult.reference_components)
                \o ExtraIssues(detailedResult.extra_components_in_input)
                \o GlobalIssueList(prov, detailedResult.global_issues)
                \o OverlapIssues(detailedResult.overlapping_elements)
      matchPercentage == MatchPercentage(detailedResult.summary)
  IN [raised |-> FALSE,
      overallMatch |-> OverallMatch(detailedResult, matchPercentage, issues),
      matchPercentage |-> matchPercentage,
      issues |-> issues,
      summary |-> "conclusion"]

\* ParseFailureResult that rethrows instead of degrading
ParseFailureRethrown(summary) ==
  [raised |-> TRUE, overallMatch |-> "none", matchPercentage |-> 0,
   issues |-> <<>>, summary |-> summary]

\* the safe default of compareUIScreenshot
ParseFailureResult(summary) ==
  [raised |-> FALSE, overallMatch |-> "warning", matchPercentage |-> 0,
   issues |-> <<>>, summary |-> summary]

(***************************************************************************)
(* compareUIScreenshot(figmaImageBase64, screenshotBase64, context)        *)
(***************************************************************************)
compareUIScreenshot(prov, reply) ==
  CASE reply.kind = "error" ->
         [raised |-> TRUE, overallMatch |-> "none", matchPercentage |-> 0,
          issues |-> <<>>, summary |-> "none"]
    [] reply.kind = "nojson" -> ParseFailureResult("no-results")
    [] reply.kind \in {"badjson", "badstruct"} -> ParseFailureResult("parse-failed")
    [] OTHER -> convertToLegacyFormat(prov, reply.detail)

(***************************************************************************)
(* The Report Publisher (PRHandler).  A comment body is modelled by the    *)
(* set of marker strings its text contains and by its remaining content.   *)
(***************************************************************************)
AnalysisMarker == "## UI QA Analysis Results"
RequestMarker == "## UI QA: Screenshots Required"

\* contents of the results passed to postComparisonResults
Reports == {"resultsA", "resultsB"}
\* contents of the link list passed to requestScreenshots
LinkLists == {"linksA"}

\* what a person may write: plain text, or text quoting the analysis heading
HumanBodies ==
  {[markers |-> {}, text |-> "plain"],
   [markers |-> {AnalysisMarker}, text |-> "quote"]}

\* body.includes(marker)
Includes(body, marker) == marker \in body.markers

\* getPRComments: issues.listComments without per_page or pagination
\* returns the first page only; the ids (positions) it returns
getPRComments(cs) == 1..Min(Len(cs), PerPage)

\* findCommentByMarker: the id of the first listed comment whose body
\* includes the marker, 0 for null
findCommentByMarker(cs, marker) ==
  LET hits == {i \in getPRComments(cs) : Includes(cs[i].body, marker)}
  IN IF hits = {} THEN 0 ELSE CHOOSE i \in hits : \A j \in hits : i <= j

\* postOrUpdateComment: update the found comment, else create one
postOrUpdateComment(cs, body, marker) ==
  LET existingComment == findCommentByMarker(cs, marker)
  IN IF existingComment # 0
     THEN [cs EXCEPT ![existingComment].body = body]
     ELSE Append(cs, [author |-> "bot", body |-> body])

\* postComparisonResults: the body starts with the analysis marker
postComparisonResults(cs, results) ==
  postOrUpdateComment(cs, [markers |-> {AnalysisMarker}, text |-> results],
                      AnalysisMarker)

\* requestScreenshots: the body starts with the request marker
requestScreenshots(cs, figmaLinks) ==
  postOrUpdateComment(cs, [markers |-> {RequestMarker}, text |-> figmaLinks],
                      RequestMarker)

\* the comment threads a PR can have before the bot's first publish: a few
\* human comments, or a busy PR with one full page of plain comments
InitialThreads ==
  {[i \in 1..Len(b) |-> [author |-> "human", body |-> b[i]]] :
     b \in SeqsUpTo(HumanBodies, MaxInitComments)}
  \cup {[i \in 1..PerPage |->
           [author |-> "human", body |-> [markers |-> {}, text |-> "plain"]]]}

(***************************************************************************)
(* withRetry of the design-provider client (src/src/figma/client.ts).      *)
(***************************************************************************)
MAX_RETRIES == 5
INITIAL_DELAY_MS == 2000
MAX_DELAY_MS == 60000

\* parseInt(retryAfter, 10) of the answers' retry-after header: absent or
\* unparsable, zero, below the cap, above the cap
RetrySeconds == {JsNaN, JsInt(0), JsInt(30), JsInt(90)}

\* what fn() can do: resolve, or reject with an HTTP status
Answers ==
  {[status |-> 200, retrySeconds |-> JsNaN], [status |-> 500, retrySeconds |-> JsNaN]}
  \cup {[status |-> 429, retrySeconds |-> h] : h \in RetrySeconds}

RECURSIVE Pow2(_)
Pow2(n) == IF n = 0 THEN 1 ELSE 2 * Pow2(n - 1)

\* the time slept before the next attempt
WaitTime(att, retrySeconds) ==
  IF retrySeconds[1] = "int" /\ retrySeconds[2] > 0
  THEN Min(retrySeconds[2] * 1000, MAX_DELAY_MS)
  ELSE Min(INITIAL_DELAY_MS * Pow2(att), MAX_DELAY_MS)

\* the loop condition of withRetry
LoopContinues(att, maxRetries) == att <= maxRetries

\* MayRetry that also sleeps after the last attempt
MayRetryAfterLast(att, maxRetries) == att <= maxRetries

\* a 429 is retried only while attempt < maxRetries
MayRetry(att, maxRetries) == att < maxRetries

\* axiosError.response?.status === 429
IsRateLimitAnyError(status) == status # 200
IsRateLimit(status) == status = 429

(***************************************************************************)
(* The Mode Orchestrator: runDetectMode and runAnalyzeMode of              *)
(* src/src/index.ts ("src"), of src/dist/index.js ("dist") and of the      *)
(* third index.ts of the repository ("part_003").  The src and part_003    *)
(* orchestrators always construct the Bedrock adapter and have no Matcher  *)
(* call; the dist orchestrator constructs the adapter with createAIClient. *)
(* The part_003 orchestrator rethrows what its loops over the tickets and  *)
(* the design links catch, and posts no Jira comment.                      *)
(***************************************************************************)
Builds == {"src", "dist", "part_003"}
Modes == {"detect", "analyze"}
Credentials == {"jira", "figma", "ai"}

\* the credentials a mode cannot do its work without
RequiredFor(m) == IF m = "detect" THEN {"jira", "ai"} ELSE {"jira", "figma", "ai"}

\* the adapters a build can construct
ProvidersOf(b) == IF b = "dist" THEN Providers ELSE {"bedrock"}

NoStatus == [state |-> "none", description |-> "none"]

\* the checks made before the clients are constructed; the Bedrock adapter
\* is constructed without any check of its credentials
ConfigError(m, b, prov, miss) ==
  \/ miss = "jira"
  \/ m = "analyze" /\ miss = "figma"
  \/ b = "dist" /\ prov = "azure" /\ miss = "ai"

\* links the AI Collaborator can return for a ticket
RawLinks == {"figmaA", "figmaB", "notFigma"}

isFigmaUrl(link) == link # "notFigma"

\* extractIssueKeyFromUrl(jiraUrl), "" when the URL has no issue key
IssueKeys == {"", "T1", "T2"}

\* one ticket URL of the PR description: its issue key and, when it has
\* one, whether getTicketContent and extractFigmaLinks succeed and the links
\* extracted; here the entries that return exactly k links
TicketEntries(k) ==
  (IF k = 0
   THEN {[issueKey |-> "", fetch |-> "none", extract |-> "none", links |-> <<>>]}
        \cup {[issueKey |-> key, fetch |-> "error", extract |-> "none", links |-> <<>>] :
                key \in IssueKeys \ {""}}
        \cup {[issueKey |-> key, fetch |-> "ok", extract |-> "error", links |-> <<>>] :
                key \in IssueKeys \ {""}}
   ELSE {})
  \cup {[issueKey |-> key, fetch |-> "ok", extract |-> "ok", links |-> ls] :
          key \in IssueKeys \ {""}, ls \in [1..k -> RawLinks]}

\* the ticket URLs of a PR description: at most n of them, returning at
\* most budget links in all
RECURSIVE TicketLists(_, _)
TicketLists(n, budget) ==
  IF n = 0 THEN {<<>>}
  ELSE {<<>>} \cup
       UNION {{<<e>> \o rest : e \in TicketEntries(k),
                               rest \in TicketLists(n - 1, budget - k)} :
                k \in 0..budget}

Tickets == TicketLists(MaxTickets, MaxLinks)

\* [...new Set(links)]: the first occurrence of every element, in order
RECURSIVE Dedupe(_, _)
Dedupe(links, seen) ==
  IF links = <<>> THEN <<>>
  ELSE IF Head(links) \in seen THEN Dedupe(Tail(links), seen)
  ELSE <<Head(links)>> \o Dedupe(Tail(links), seen \cup {Head(links)})

\* the links of a ticket that pass FigmaClient.isFigmaUrl, in order
RECURSIVE ValidLinks(_)
ValidLinks(links) ==
  IF links = <<>> THEN <<>>
  ELSE IF isFigmaUrl(Head(links)) THEN <<Head(links)>> \o ValidLinks(Tail(links))
  ELSE ValidLinks(Tail(links))

\* the ticket key kept by the loop: detect overwrites it with every key,
\* analyze keeps the first one; the part_003 analyze keeps none
NextTicketKey(m, b, key, issueKey) ==
  IF m = "detect" THEN issueKey
  ELSE IF b = "part_003" THEN ""
  ELSE IF key = "" THEN issueKey ELSE key

\* the catch block of the loops over the tickets and over the design
\* links: core.warning in src and dist, throw new Error in part_003
Rethrows(b) == b = "part_003"

\* a ticket URL without an issue key: skipped, but thrown by the part_003
\* detect
NoKeyThrows(m, b) == b = "part_003" /\ m = "detect"

\* the loop over jiraUrls; acc is [key, links, calls, thrown]; aiDown means
\* every call of the AI Collaborator fails for lack of a credential
RECURSIVE CollectLinks(_, _, _, _, _)
CollectLinks(m, b, tickets, aiDown, acc) ==
  IF tickets = <<>> THEN acc
  ELSE LET t == Head(tickets)
           key == NextTicketKey(m, b, acc.key, t.issueKey)
       IN IF t.issueKey = ""
          THEN IF NoKeyThrows(m, b)
               THEN [acc EXCEPT !.thrown = TRUE]
               ELSE CollectLinks(m, b, Tail(tickets), aiDown, acc)
          ELSE IF t.fetch = "error"
          THEN LET after == [acc EXCEPT !.key = key,
                                        !.calls = @ \cup {"getTicketContent"}]
               IN IF Rethrows(b)
                  THEN [after EXCEPT !.thrown = TRUE]
                  ELSE CollectLinks(m, b, Tail(tickets), aiDown, after)
          ELSE IF t.extract = "error" \/ aiDown
          THEN LET after == [acc EXCEPT !.key = key,
                                        !.calls = @ \cup {"getTicketContent",
                                                          "extractFigmaLinks"}]
               IN IF Rethrows(b)
                  THEN [after EXCEPT !.thrown = TRUE]
                  ELSE CollectLinks(m, b, Tail(tickets), aiDown, after)
          ELSE CollectLinks(m, b, Tail(tickets), aiDown,
                 [acc EXCEPT !.key = key,
                             !.links = @ \o ValidLinks(t.links),
                             !.calls = @ \cup {"getTicketContent", "extractFigmaLinks"}])

\* a comment as getPRComments returns it: body.includes('qa!'), its image
\* URLs, its created_at; a comment's id is its position in the PR
PlainComment(p, stamp) ==
  [id |-> p, qa |-> FALSE, imageUrls |-> <<>>, createdAt |-> stamp]

\* shapes of the comments people wrote: with or without "qa!", with some
\* images, possibly created in the same second as the comment before
CommentShapes(n) == [qa : BOOLEAN, images : 0..n, sameSecond : BOOLEAN]

RECURSIVE ShapeLists(_, _)
ShapeLists(n, budget) ==
  IF n = 0 THEN {<<>>}
  ELSE {<<>>} \cup
       UNION {{<<c>> \o rest : rest \in ShapeLists(n - 1, budget - c.images)} :
                c \in CommentShapes(budget)}

\* created_at of the i-th written comment, in seconds
Stamp(cs, i) == Cardinality({k \in 1..i : k = 1 \/ ~cs[k].sameSecond})

\* the PR's comments, oldest first: the written comments cs, with a full
\* page of plain comments after the first one when busy
Thread(cs, busy) ==
  LET pad == IF busy /\ Len(cs) >= 1 THEN PerPage ELSE 0
  IN [p \in 1..(Len(cs) + pad) |->
        IF p = 1 \/ p > 1 + pad
        THEN LET i == IF p = 1 THEN 1 ELSE p - pad
             IN [id |-> p, qa |-> cs[i].qa,
                 imageUrls |-> [j \in 1..cs[i].images |-> <<p, j>>],
                 createdAt |-> Stamp(cs, i) + (IF p = 1 THEN 0 ELSE pad)]
        ELSE PlainComment(p, Stamp(cs, 1) + p - 1)]

Threads == {Thread(cs, busy) : cs \in ShapeLists(MaxThread, MaxShots), busy \in BOOLEAN}

\* the comments one listComments call returns
FirstPage(thread) == SubSeq(thread, 1, Min(Len(thread), PerPage))

RECURSIVE FlatImages(_)
FlatImages(cs) ==
  IF cs = <<>> THEN <<>> ELSE Head(cs).imageUrls \o FlatImages(Tail(cs))

\* src: the triggering comment's images when comment-id is given and that
\* comment has images, the images of all comments otherwise
SelectSrc(thread, commentId) ==
  LET page == FirstPage(thread)
      withImages == SelectSeq(page, LAMBDA c : Len(c.imageUrls) > 0)
      trigger == SelectSeq(withImages, LAMBDA c : c.id = commentId)
  IN IF commentId # 0
     THEN IF trigger = <<>> THEN <<>> ELSE trigger[1].imageUrls
     ELSE FlatImages(withImages)

\* dist: the images of the first comment after a stable sort of the "qa!"
\* comments with images by createdAt, newest first
SelectDist(thread) ==
  LET page == FirstPage(thread)
      qa == SelectSeq(page, LAMBDA c : c.qa /\ Len(c.imageUrls) > 0)
      first == CHOOSE i \in DOMAIN qa :
                 /\ \A j \in DOMAIN qa : qa[j].createdAt <= qa[i].createdAt
                 /\ \A j \in 1..(i - 1) : qa[j].createdAt < qa[i].createdAt
  IN IF qa = <<>> THEN <<>> ELSE qa[first].imageUrls

SelectScreenshots(b, thread, commentId) ==
  IF b = "dist" THEN SelectDist(thread) ELSE SelectSrc(thread, commentId)

\* what getImagesFromUrl does for one design link: throws, or returns
\* some images
FetchOutcomes(n) ==
  {[kind |-> "error", images |-> 0]} \cup {[kind |-> "ok", images |-> k] : k \in 0..n}

RECURSIVE FetchLists(_, _)
FetchLists(n, budget) ==
  IF n = 0 THEN {<<>>}
  ELSE UNION {{<<o>> \o rest :
                 rest \in FetchLists(n - 1, budget - o.images)} :
                o \in FetchOutcomes(budget)}

\* figmaImages after the loop over figmaLinks
RECURSIVE CollectImages(_, _)
CollectImages(links, fetched) ==
  IF links = <<>> THEN <<>>
  ELSE [k \in 1..Head(fetched).images |-> Head(links)]
       \o CollectImages(Tail(links), Tail(fetched))

\* a design link whose images could not be fetched ends the part_003
\* analyze, and so does a run that fetched no image at all
DesignLoopThrows(b, fetched, images) ==
  /\ Rethrows(b)
  /\ \/ \E i \in DOMAIN fetched : fetched[i].kind = "error"
     \/ Len(images) = 0

\* the links of the tickets that were read and analysed without error
RECURSIVE LinksOfSucceeded(_, _)
LinksOfSucceeded(tickets, aiDown) ==
  IF tickets = <<>> THEN <<>>
  ELSE LET t == Head(tickets)
           ok == t.issueKey # "" /\ t.fetch = "ok" /\ t.extract = "ok" /\ ~aiDown
       IN (IF ok THEN SelectSeq(t.links, isFigmaUrl) ELSE <<>>)
          \o LinksOfSucceeded(Tail(tickets), aiDown)

\* the images of the design links that were resolved without error
RECURSIVE ImagesOfSucceeded(_, _)
ImagesOfSucceeded(links, fetched) ==
  IF links = <<>> THEN <<>>
  ELSE (IF Head(fetched).kind = "ok"
        THEN [k \in 1..Head(fetched).images |-> Head(links)]
        ELSE <<>>)
       \o ImagesOfSucceeded(Tail(links), Tail(fetched))

\* the matcher's pairs as the comparison loop uses them
PairsOf(matches) ==
  [i \in 1..Len(matches) |->
     [screenshotIndex |-> matches[i].screenshotIndex,
      figmaIndex |-> matches[i].figmaIndex]]

\* src: every screenshot against every design, screenshot by screenshot
AllPairs(n, m) ==
  [k \in 1..(n * m) |->
     [screenshotIndex |-> JsInt((k - 1) \div m), figmaIndex |-> JsInt((k - 1) % m)]]

\* answers of the AI Collaborator to the matching prompt of a run
RunIdx == {JsInt(0), JsInt(1), JsHalf(0)}
RunMatchReplies ==
  {[kind |-> "error", pairs |-> <<>>]}
  \cup {[kind |-> "json", pairs |-> ps] :
          ps \in SeqsUpTo([screenshotIndex : RunIdx, figmaIndex : RunIdx,
                           confidence : {JsInt(70)}], MaxPairs)}

\* answers of the AI Collaborator to the comparison prompt of a run
RunCompareReplies ==
  FailedReplies
  \cup {[kind |-> "json",
         detail |-> [NoDetail EXCEPT !.overall_status = st]] : st \in Statuses}

\* screenshots[i] and figmaDesigns[i] are undefined unless i is an index
IsIndex(v) == v[1] = "int"

\* PendingStatusDue that holds whatever was found
PendingStatusAlways(links) == TRUE

\* detect sets the pending status iff it found design links
PendingStatusDue(links) == Len(links) > 0

\* AfterJiraError that lets the error of addComment escape
JiraErrorEscapes == "failed"

\* the catch block around addComment logs the error and goes on
AfterJiraError == "completed"

\* CommitStatusFor in which a warning blocks like a failure
CommitStatusWarningsBlock(rs) ==
  LET hasFailures == \E i \in DOMAIN rs : rs[i].overallMatch \in {"fail", "warning"}
  IN IF hasFailures
     THEN [state |-> "failure", description |-> "discrepancies"]
     ELSE [state |-> "success", description |-> "all-passed"]

\* the commit status derived from the results
CommitStatusFor(rs) ==
  LET hasFailures == \E i \in DOMAIN rs : rs[i].overallMatch = "fail"
      hasWarnings == \E i \in DOMAIN rs : rs[i].overallMatch = "warning"
  IN IF hasFailures
     THEN [state |-> "failure", description |-> "discrepancies"]
     ELSE IF hasWarnings
     THEN [state |-> "success", description |-> "minor-issues"]
     ELSE [state |-> "success", description |-> "all-passed"]

(***************************************************************************)
(* The annotation renderer (src/src/utils/image-annotator.ts).             *)
(* An image is its source bytes, whether sharp re-encoded it as PNG, and   *)
(* the overlays composited on it; the bytes a caller passes in are         *)
(* Original(name).  Coordinates of a bounding box are JSON values: a       *)
(* number, or something typeof does not call 'number'.                     *)
(***************************************************************************)
JsString == <<"string", 0>>
JsUndefined == <<"undefined", 0>>

\* typeof v === 'number'
TypeofNumber(v) == v[1] \in {"int", "half", "nan"}

ImageNames == {"shotA", "shotB"}
Original(name) == [source |-> name, png |-> FALSE, overlays |-> <<>>]
InputImages == {Original(name) : name \in ImageNames}

\* metadata.width || 800 and metadata.height || 600 of the decoded image
ImageWidth(img) == IF img.source = "shotA" THEN 800 ELSE 100
ImageHeight(img) == IF img.source = "shotA" THEN 600 ELSE 40

NoBox == [present |-> FALSE, x |-> JsUndefined, y |-> JsUndefined, width |-> 0, height |-> 0]
Box(x, y, w, h) == [present |-> TRUE, x |-> x, y |-> y, width |-> w, height |-> h]
Boxes ==
  {NoBox, Box(JsInt(10), JsInt(20), 50, 20), Box(JsInt(90), JsInt(95), 0, 0),
   Box(JsString, JsInt(20), 50, 20), Box(JsInt(10), JsUndefined, 50, 20)}

AnnIssues ==
  [severity : {"critical", "minor"}, description : {"d1", "d2"}, location : {"loc"},
   boundingBox : Boxes]
IssueLists == UNION {[1..n -> AnnIssues] : n \in 0..MaxIssues}

\* the condition of both filters: boundingBox && typeof x === 'number' &&
\* typeof y === 'number'
UsableBoxAnyBox(bb) == bb.present
UsableBox(bb) == bb.present /\ TypeofNumber(bb.x) /\ TypeofNumber(bb.y)

\* Math.round of the non-negative rational p / q
RoundDiv(p, q) == (2 * p + q) \div (2 * q)

\* markerSize of annotateImage
MarkerSize(img) ==
  Min(48, Max(24, RoundDiv(Min(ImageWidth(img), ImageHeight(img)) * 4, 100)))

\* the composite operations annotateImage pushes for one valid marker
MarkerOps(img, marker) ==
  LET bb == marker.boundingBox
      W == ImageWidth(img)
      H == ImageHeight(img)
      pixelX == RoundDiv(bb.x[2] * W, 100)
      pixelY == RoundDiv(bb.y[2] * H, 100)
      pixelWidth == RoundDiv(bb.width * W, 100)
      pixelHeight == RoundDiv(bb.height * H, 100)
      size == MarkerSize(img)
      \* twice markerX and markerY, which may end in .5
      markerX2 == Max(0, Min(2 * (W - size), 2 * pixelX - size))
      markerY2 == Max(0, Min(2 * (H - size), 2 * pixelY - size))
      highlight ==
        IF bb.width > 0 /\ bb.height > 0 /\ pixelWidth > 10 /\ pixelHeight > 10
        THEN <<[kind |-> "highlight", number |-> marker.number,
                severity |-> marker.severity,
                left |-> Max(0, Min(W - pixelWidth, pixelX)),
                top |-> Max(0, Min(H - pixelHeight, pixelY))]>>
        ELSE <<>>
  IN highlight \o <<[kind |-> "marker", number |-> marker.number,
                     severity |-> marker.severity,
                     left |-> RoundDiv(markerX2, 2), top |-> RoundDiv(markerY2, 2)]>>

RECURSIVE CompositeOps(_, _)
CompositeOps(img, markers) ==
  IF markers = <<>> THEN <<>>
  ELSE MarkerOps(img, Head(markers)) \o CompositeOps(img, Tail(markers))

ValidMarker(m) == UsableBox(m.boundingBox)

annotateImage(imageBase64, markers) ==
  LET validMarkers == SelectSeq(markers, ValidMarker)
  IN IF Len(validMarkers) = 0
     THEN imageBase64
     ELSE [source |-> imageBase64.source, png |-> TRUE,
           overlays |-> CompositeOps(imageBase64, validMarkers)]

\* the loop of createAnnotatedImage: markers and legend built side by side
RECURSIVE MarkersFrom(_, _)
MarkersFrom(issues, markerNumber) ==
  IF issues = <<>> THEN <<>>
  ELSE IF UsableBox(Head(issues).boundingBox)
       THEN <<[number |-> markerNumber, boundingBox |-> Head(issues).boundingBox,
               severity |-> Head(issues).severity,
               description |-> Head(issues).description]>>
            \o MarkersFrom(Tail(issues), markerNumber + 1)
       ELSE MarkersFrom(Tail(issues), markerNumber)

\* LegendFrom with markerNumber++ outside the if: every issue consumes a number
RECURSIVE LegendFromEveryIssue(_, _)
LegendFromEveryIssue(issues, markerNumber) ==
  IF issues = <<>> THEN <<>>
  ELSE IF UsableBox(Head(issues).boundingBox)
       THEN <<[number |-> markerNumber, severity |-> Head(issues).severity,
               description |-> Head(issues).description,
               location |-> Head(issues).location]>>
            \o LegendFromEveryIssue(Tail(issues), markerNumber + 1)
       ELSE LegendFromEveryIssue(Tail(issues), markerNumber + 1)

RECURSIVE LegendFrom(_, _)
LegendFrom(issues, markerNumber) ==
  IF issues = <<>> THEN <<>>
  ELSE IF UsableBox(Head(issues).boundingBox)
       THEN <<[number |-> markerNumber, severity |-> Head(issues).severity,
               description |-> Head(issues).description,
               location |-> Head(issues).location]>>
            \o LegendFrom(Tail(issues), markerNumber + 1)
       ELSE LegendFrom(Tail(issues), markerNumber)

createAnnotatedImage(imageBase64, issues) ==
  LET markers == MarkersFrom(issues, 1)
      legend == LegendFrom(issues, 1)
  IN IF Len(markers) = 0
     THEN [annotatedImageBase64 |-> imageBase64, legend |-> <<>>,
           hasAnnotations |-> FALSE]
     ELSE [annotatedImageBase64 |-> annotateImage(imageBase64, markers),
           legend |-> legend, hasAnnotations |-> TRUE]

NoAnnotation == [annotatedImageBase64 |-> Original("none"), legend |-> <<>>,
                 hasAnnotations |-> FALSE]

(***************************************************************************)
(* The design cache (src/src/figma/cache.ts).  One file per cache key; a   *)
(* file is absent, holds one complete JSON entry, or is torn: empty after  *)
(* the truncation of an open for writing, or a shorter entry written over  *)
(* the head of a longer one.  The length of an entry grows with the        *)
(* number of images in its data; everything else in it has a fixed length  *)
(* for one URL.                                                            *)
(***************************************************************************)
\* this.ttlMs, in ticks of the model clock
ttlMs == 2

\* the URLs looked up; getImagesFromUrl caches under `images:${figmaUrl}`
CacheUrls == {"figmaA", "figmaB"}

\* null
NoData == [for |-> "none", nodes |-> 0]
\* what the provider may answer for a URL: its images, by their number
DataFor(url) == {[for |-> url, nodes |-> n] : n \in 1..MaxNodes}

\* md5 of the URL: distinct URLs get distinct keys
getCacheKeyShared(url) == <<"md5", "any">>
getCacheKey(url) == <<"md5", url>>
getCachePath(key) == <<".figma-cache", key, ".json">>
PathOf(url) == getCachePath(getCacheKey(url))
CachePaths == {PathOf(url) : url \in CacheUrls}

AbsentFile ==
  [kind |-> "absent", data |-> NoData, timestamp |-> 0, url |-> "none", size |-> 0]
TornFile(size) ==
  [kind |-> "torn", data |-> NoData, timestamp |-> 0, url |-> "none", size |-> size]
EntryFile(url, data, t) ==
  [kind |-> "entry", data |-> data, timestamp |-> t, url |-> url, size |-> data.nodes]

\* bytes written at offset 0 of a file that already has content
Overwrite(old, new) == IF old.size > new.size THEN TornFile(old.size) ELSE new

isValidAtTtl(entry, t) == t - entry.timestamp <= ttlMs
isValid(entry, t) == t - entry.timestamp < ttlMs

\* FigmaCache.delete(url) on the directory fs
FigmaCacheDelete(fs, url) == [fs EXCEPT ![PathOf(url)] = AbsentFile]

\* FigmaCache.get(url) on the directory fs at time t, run without
\* interruption: what it returns, what it logs and the directory it leaves
FigmaCacheGet(fs, url, t) ==
  LET content == fs[PathOf(url)]
  IN IF content.kind = "absent"
     THEN [result |-> NoData, log |-> "none", files |-> fs]
     ELSE IF content.kind = "torn"
     THEN [result |-> NoData, log |-> "error", files |-> fs]
     ELSE IF ~isValid(content, t)
     THEN [result |-> NoData, log |-> "expired", files |-> FigmaCacheDelete(fs, url)]
     ELSE [result |-> content.data, log |-> "hit", files |-> fs]

\* how writeFileSync may end: done, refused at the open, or failed after
\* the open truncated the file
WriteOutcomes == {"ok", "openFailed", "writeFailed"}

\* FigmaCache.set(url, data) on the directory fs at time t, run without
\* interruption
FigmaCacheSet(fs, url, data, t, how) ==
  IF how = "ok" THEN [fs EXCEPT ![PathOf(url)] = EntryFile(url, data, t)]
  ELSE IF how = "writeFailed" THEN [fs EXCEPT ![PathOf(url)] = TornFile(0)]
  ELSE fs

NoGet == [url |-> "none", result |-> NoData, log |-> "none", fetched |-> FALSE]

\* a concurrent invocation inside getImagesFromUrl: its position, the URL it
\* looks up, the number of images it is writing, and whether the file it
\* holds open was unlinked meanwhile
Proc(pc, url, nodes, orphan) ==
  [pc |-> pc, url |-> url, nodes |-> nodes, orphan |-> orphan]

\* the open files of a path lose their name when the path is unlinked
Orphaned(e, url) ==
  IF e.pc = "write" /\ e.url = url THEN [e EXCEPT !.orphan = TRUE] ELSE e
OrphanAll(bag, url) ==
  LET dom == {Orphaned(e, url) : e \in BagToSet(bag)}
      Sources(d) == {e \in BagToSet(bag) : Orphaned(e, url) = d}
      RECURSIVE Sum(_)
      Sum(S) == IF S = {} THEN 0
                ELSE LET e == CHOOSE x \in S : TRUE
                     IN CopiesIn(e, bag) + Sum(S \ {e})
  IN [d \in dom |-> Sum(Sources(d))]


(***************************************************************************)
(* The state of each part while another part is being exercised.           *)
(***************************************************************************)
MatchIdle ==
  /\ nShots = 0 /\ nDesigns = 0 /\ aiReply = NoReply /\ aiCalls = 0
  /\ matchResult = NoResult /\ mpc = "idle"

CompareIdle == cmpReply = NoCmpReply /\ cmpResult = NoCmpResult /\ cpc = "idle"

PublishIdle == comments = <<>> /\ pubLog = <<>> /\ publishers = <<>>

RetryIdle ==
  /\ attempt = 0 /\ fnCalls = 0 /\ sleeps = <<>> /\ lastStatus = 0 /\ rpc = "idle"

RunFresh(pc) ==
  /\ mode = "analyze" /\ build = "dist" /\ missing = "none"
  /\ apc = pc /\ outcome = "running" /\ calls = {}
  /\ jiraTicketKey = "" /\ uniqueFigmaLinks = <<>> /\ hasFigmaLinks = "unset"
  /\ prThread = <<>> /\ triggerId = 0 /\ screenshotUrls = <<>> /\ figmaImages = <<>>
  /\ screenshots = 0 /\ figmaDesigns = 0
  /\ succeededLinks = <<>> /\ succeededImages = <<>>
  /\ runMatches = <<>> /\ todo = <<>> /\ runResults = <<>>
  /\ prReport = "none" /\ commitStatus = NoStatus /\ jiraEcho = "none"

RunIdle == RunFresh("idle")

AnnIdle ==
  /\ annImage = Original("none") /\ annIssues = <<>>
  /\ annResult = NoAnnotation /\ annPc = "idle"

DeriveIdle ==
  prDescription = <<>> /\ detectJiraTicket = "unset" /\ analyzeJiraTarget = "unset"

CacheIdle ==
  /\ now = 0 /\ files = [p \in CachePaths |-> AbsentFile]
  /\ lastGet = NoGet /\ procs = EmptyBag


(***************************************************************************)
(* Actions of the matcher.                                                 *)
(***************************************************************************)
MatchInit ==
  /\ provider = "bedrock"
  /\ nShots = 0
  /\ nDesigns = 0
  /\ aiReply = NoReply
  /\ aiCalls = 0
  /\ matchResult = NoResult
  /\ mpc = "ready"
  /\ CompareIdle /\ PublishIdle /\ RetryIdle /\ RunIdle /\ AnnIdle /\ CacheIdle /\ DeriveIdle

\* one call of matchScreenshotsToDesigns on the adapter prov with
\* screenshotCount screenshots and figmaCount designs; the collaborator's
\* answer is consumed only when the call reaches invokeModelWithImages
Match ==
  /\ mpc = "ready"
  /\ \E prov \in Providers, screenshotCount \in 0..MaxShots,
        figmaCount \in 0..MaxDesigns, reply \in MatchReplies :
       /\ provider' = prov
       /\ nShots' = screenshotCount
       /\ nDesigns' = figmaCount
       /\ matchResult' = matchScreenshotsToDesigns(prov, screenshotCount, figmaCount, reply)
       /\ IF InvokesAI(prov, screenshotCount, figmaCount)
          THEN aiReply' = reply /\ aiCalls' = aiCalls + 1
          ELSE aiReply' = NoReply /\ aiCalls' = aiCalls
  /\ mpc' = "done"
  /\ UNCHANGED <<cmpVars, pubVars, retryVars, runVars, annVars, cacheVars, deriveVars>>

\* the call has returned; the next invocation starts from scratch
NewMatchRun ==
  /\ mpc = "done"
  /\ aiReply' = NoReply
  /\ aiCalls' = 0
  /\ matchResult' = NoResult
  /\ provider' = "bedrock" /\ nShots' = 0 /\ nDesigns' = 0
  /\ mpc' = "ready"
  /\ UNCHANGED <<cmpVars, pubVars, retryVars, runVars, annVars, cacheVars, deriveVars>>

MatchNext == Match \/ NewMatchRun

SpecMatch == MatchInit /\ [][MatchNext]_vars

\* confidences a collaborator can report for a pair: none, or a number
\* below, inside, at the ends of and above the range 0..100
ReportedConfidences ==
  {JsNaN, JsInt(-5), JsInt(0), JsInt(1), JsInt(70), JsInt(100), JsInt(150)}

\* one call of matchScreenshotsToDesigns answered by a response that names
\* a single pair, with any reported confidence
MatchOnePair ==
  /\ mpc = "ready"
  /\ \E prov \in Providers, screenshotCount \in 0..MaxShots,
        figmaCount \in 0..MaxDesigns, si \in RawIdx, fi \in RawIdx,
        conf \in ReportedConfidences :
       LET reply == [kind |-> "json",
                     pairs |-> <<[screenshotIndex |-> si, figmaIndex |-> fi,
                                  confidence |-> conf]>>]
       IN /\ provider' = prov
          /\ nShots' = screenshotCount
          /\ nDesigns' = figmaCount
          /\ matchResult' = matchScreenshotsToDesigns(prov, screenshotCount, figmaCount, reply)
          /\ IF InvokesAI(prov, screenshotCount, figmaCount)
             THEN aiReply' = reply /\ aiCalls' = aiCalls + 1
             ELSE aiReply' = NoReply /\ aiCalls' = aiCalls
  /\ mpc' = "done"
  /\ UNCHANGED <<cmpVars, pubVars, retryVars, runVars, annVars, cacheVars, deriveVars>>

ConfidenceNext == MatchOnePair \/ NewMatchRun

SpecConfidence == MatchInit /\ [][ConfidenceNext]_vars

(***************************************************************************)
(* Actions of the aggregator.                                              *)
(***************************************************************************)
CompareInit ==
  /\ provider = "bedrock"
  /\ cmpReply = NoCmpReply /\ cmpResult = NoCmpResult /\ cpc = "ready"
  /\ MatchIdle /\ PublishIdle /\ RetryIdle /\ RunIdle /\ AnnIdle /\ CacheIdle /\ DeriveIdle

\* the call on the adapter prov when the collaborator answers reply
CompareWith(prov, reply) ==
  /\ provider' = prov
  /\ cmpReply' = reply
  /\ cmpResult' = compareUIScreenshot(prov, reply)

\* one call of compareUIScreenshot
Compare ==
  /\ cpc = "ready"
  /\ \E prov \in Providers :
       \/ \E reply \in FailedReplies : CompareWith(prov, reply)
       \/ \E f \in Findings, sm \in Summaries, st \in Statuses :
            CompareWith(prov, [kind |-> "json", detail |-> DetailedResult(f, sm, st)])
  /\ cpc' = "done"
  /\ UNCHANGED <<matchVars, pubVars, retryVars, runVars, annVars, cacheVars, deriveVars>>

\* the call has returned; the next comparison starts from scratch
NewCompareRun ==
  /\ cpc = "done"
  /\ cmpReply' = NoCmpReply /\ cmpResult' = NoCmpResult /\ cpc' = "ready"
  /\ provider' = "bedrock"
  /\ UNCHANGED <<matchVars, pubVars, retryVars, runVars, annVars, cacheVars, deriveVars>>

CompareNext == Compare \/ NewCompareRun

SpecCompare == CompareInit /\ [][CompareNext]_vars

(***************************************************************************)
(* Actions of the publisher.                                               *)
(***************************************************************************)
PublishInit ==
  /\ comments \in InitialThreads
  /\ pubLog = <<>>
  /\ publishers = <<>>
  /\ provider = "bedrock"
  /\ MatchIdle /\ CompareIdle /\ RetryIdle /\ RunIdle /\ AnnIdle /\ CacheIdle /\ DeriveIdle

\* analyze publishes its results
PostComparisonResults ==
  /\ Len(pubLog) < MaxOps
  /\ \E results \in Reports :
       /\ comments' = postComparisonResults(comments, results)
       /\ pubLog' = Append(pubLog, [op |-> "postComparisonResults", arg |-> results])
  /\ UNCHANGED <<publishers, provider, matchVars, cmpVars, retryVars, runVars, annVars, cacheVars, deriveVars>>

\* request asks for screenshots
RequestScreenshots ==
  /\ Len(pubLog) < MaxOps
  /\ \E figmaLinks \in LinkLists :
       /\ comments' = requestScreenshots(comments, figmaLinks)
       /\ pubLog' = Append(pubLog, [op |-> "requestScreenshots", arg |-> figmaLinks])
  /\ UNCHANGED <<publishers, provider, matchVars, cmpVars, retryVars, runVars, annVars, cacheVars, deriveVars>>

\* a person comments on the PR
HumanComment ==
  /\ Len(pubLog) < MaxOps
  /\ \E b \in HumanBodies :
       /\ comments' = Append(comments, [author |-> "human", body |-> b])
       /\ pubLog' = Append(pubLog, [op |-> "humanComment", arg |-> b.text])
  /\ UNCHANGED <<publishers, provider, matchVars, cmpVars, retryVars, runVars, annVars, cacheVars, deriveVars>>

PublishNext == PostComparisonResults \/ RequestScreenshots \/ HumanComment

SpecPublish == PublishInit /\ [][PublishNext]_vars

(***************************************************************************)
(* Concurrent invocations publishing to one PR.  postOrUpdateComment       *)
(* awaits findCommentByMarker and then updateComment or postComment; the   *)
(* calls of another invocation can fall between the two requests.          *)
(***************************************************************************)
PublishOps == {"postComparisonResults", "requestScreenshots"}

\* the marker each operation passes to postOrUpdateComment
MarkerOf(op) == IF op = "postComparisonResults" THEN AnalysisMarker ELSE RequestMarker

\* the content each operation can be called with
ArgsOf(op) == IF op = "postComparisonResults" THEN Reports ELSE LinkLists

\* issues.updateComment(comment_id, body)
updateComment(cs, commentId, body) == [cs EXCEPT ![commentId].body = body]

\* issues.createComment(issue_number, body)
postComment(cs, body) == Append(cs, [author |-> "bot", body |-> body])

IdlePublisher == [pc |-> "ready", op |-> "none", arg |-> "none", existingComment |-> 0]

PublishRaceInit ==
  /\ comments \in InitialThreads
  /\ pubLog = <<>>
  /\ publishers = [p \in 1..NPublishers |-> IdlePublisher]
  /\ provider = "bedrock"
  /\ MatchIdle /\ CompareIdle /\ RetryIdle /\ RunIdle /\ AnnIdle /\ CacheIdle /\ DeriveIdle

\* invocation p builds its body and awaits findCommentByMarker
FindComment(p) ==
  /\ publishers[p].pc = "ready"
  /\ \E op \in PublishOps :
       \E arg \in ArgsOf(op) :
         publishers' = [publishers EXCEPT ![p] =
           [pc |-> "found", op |-> op, arg |-> arg,
            existingComment |-> findCommentByMarker(comments, MarkerOf(op))]]
  /\ UNCHANGED <<comments, pubLog, provider, matchVars, cmpVars, retryVars, runVars,
                 annVars, cacheVars, deriveVars>>

\* invocation p updates the comment it found, or creates one
CreateOrUpdate(p) ==
  /\ publishers[p].pc = "found"
  /\ LET me == publishers[p]
         body == [markers |-> {MarkerOf(me.op)}, text |-> me.arg]
     IN /\ comments' = IF me.existingComment # 0
                       THEN updateComment(comments, me.existingComment, body)
                       ELSE postComment(comments, body)
        /\ publishers' = [publishers EXCEPT ![p] =
             [pc |-> "done", op |-> me.op, arg |-> "none", existingComment |-> 0]]
  /\ UNCHANGED <<pubLog, provider, matchVars, cmpVars, retryVars, runVars,
                 annVars, cacheVars, deriveVars>>

PublishRaceNext ==
  \/ \E p \in DOMAIN publishers : FindComment(p)
  \/ \E p \in DOMAIN publishers : CreateOrUpdate(p)

SpecPublishRace == PublishRaceInit /\ [][PublishRaceNext]_vars

(***************************************************************************)
(* Actions of withRetry(fn, context) with the default maxRetries.          *)
(***************************************************************************)
RetryInit ==
  /\ attempt = 0 /\ fnCalls = 0 /\ sleeps = <<>> /\ lastStatus = 0 /\ rpc = "call"
  /\ provider = "bedrock"
  /\ MatchIdle /\ CompareIdle /\ PublishIdle /\ RunIdle /\ AnnIdle /\ CacheIdle /\ DeriveIdle

\* one pass through the loop body: fn() is awaited and its answer handled
CallFn ==
  /\ rpc = "call"
  /\ \E answer \in Answers :
       /\ fnCalls' = fnCalls + 1
       /\ lastStatus' = answer.status
       /\ IF answer.status = 200
          THEN rpc' = "returned" /\ UNCHANGED sleeps
          ELSE IF IsRateLimit(answer.status) /\ MayRetry(attempt, MAX_RETRIES)
               THEN /\ sleeps' = Append(sleeps, WaitTime(attempt, answer.retrySeconds))
                    /\ rpc' = "sleep"
               ELSE rpc' = "thrown" /\ UNCHANGED sleeps
  /\ UNCHANGED <<attempt, provider, matchVars, cmpVars, pubVars, runVars, annVars, cacheVars, deriveVars>>

\* the sleep is over: continue with the next attempt, or leave the loop
\* and throw lastError
WakeUp ==
  /\ rpc = "sleep"
  /\ attempt' = attempt + 1
  /\ rpc' = IF LoopContinues(attempt + 1, MAX_RETRIES) THEN "call" ELSE "thrown"
  /\ UNCHANGED <<fnCalls, sleeps, lastStatus, provider, matchVars, cmpVars, pubVars, runVars, annVars, cacheVars, deriveVars>>

\* withRetry has settled; the next wrapped call starts from scratch
NewRetryRun ==
  /\ rpc \in {"returned", "thrown"}
  /\ attempt' = 0 /\ fnCalls' = 0 /\ sleeps' = <<>> /\ lastStatus' = 0 /\ rpc' = "call"
  /\ UNCHANGED <<provider, matchVars, cmpVars, pubVars, runVars, annVars, cacheVars, deriveVars>>

RetryNext == CallFn \/ WakeUp \/ NewRetryRun

SpecRetry == RetryInit /\ [][RetryNext]_vars

(***************************************************************************)
(* Actions of the Mode Orchestrator: one invocation of run() in detect or  *)
(* analyze mode, one action per stretch between two external calls.        *)
(***************************************************************************)
RunInit ==
  /\ RunFresh("ready")
  /\ provider = "bedrock"
  /\ MatchIdle /\ CompareIdle /\ PublishIdle /\ RetryIdle /\ AnnIdle /\ CacheIdle /\ DeriveIdle

\* the invocation ends: normally, or with core.setFailed
Finish(how) == outcome' = how /\ apc' = "done"

\* run() up to the construction of the clients.  detect returns before the
\* credential check when the PR description has no ticket URL
StartRun ==
  /\ apc = "ready"
  /\ \E m \in Modes, b \in Builds, miss \in {"none"} \cup Credentials,
        hasTicketUrls \in BOOLEAN :
       \E prov \in ProvidersOf(b) :
         /\ m = "analyze" => hasTicketUrls
         /\ mode' = m /\ build' = b /\ provider' = prov /\ missing' = miss
         /\ IF m = "detect" /\ ~hasTicketUrls
            THEN hasFigmaLinks' = "false" /\ Finish("completed") /\ UNCHANGED calls
            ELSE IF ConfigError(m, b, prov, miss)
            THEN Finish("failed") /\ UNCHANGED <<hasFigmaLinks, calls>>
            ELSE /\ apc' = "links"
                 /\ calls' = IF m = "analyze" THEN {"getPRInfo"} ELSE {}
                 /\ UNCHANGED <<hasFigmaLinks, outcome>>
  /\ UNCHANGED <<jiraTicketKey, uniqueFigmaLinks, prThread, triggerId, screenshotUrls,
                 figmaImages, screenshots, figmaDesigns, runMatches, todo, runResults, prReport,
                 commitStatus, jiraEcho, succeededLinks, succeededImages,
                 matchVars, cmpVars, pubVars, retryVars, annVars, cacheVars, deriveVars>>

\* the loop over the ticket URLs, the deduplication, and in detect the
\* outputs and the pending status
ResolveLinks ==
  /\ apc = "links"
  /\ \E tickets \in Tickets :
       LET acc == CollectLinks(mode, build, tickets, missing = "ai",
                               [key |-> "", links |-> <<>>, calls |-> {},
                                thrown |-> FALSE])
           links == Dedupe(acc.links, {})
       IN /\ mode = "detect" => tickets # <<>>
          /\ succeededLinks' = Dedupe(LinksOfSucceeded(tickets, missing = "ai"), {})
          /\ IF acc.thrown
             THEN /\ calls' = calls \cup acc.calls
                  /\ Finish("failed")
                  /\ UNCHANGED <<jiraTicketKey, uniqueFigmaLinks, hasFigmaLinks,
                                 commitStatus>>
             ELSE /\ jiraTicketKey' = acc.key
                  /\ uniqueFigmaLinks' = links
                  /\ IF mode = "detect"
                     THEN /\ hasFigmaLinks' = IF Len(links) > 0 THEN "true" ELSE "false"
                          /\ IF PendingStatusDue(links)
                             THEN /\ calls' = calls \cup acc.calls \cup {"setCommitStatus"}
                                  /\ \E ok \in BOOLEAN :
                                       IF ok
                                       THEN /\ commitStatus' = [state |-> "pending",
                                                                description |-> "awaiting-screenshots"]
                                            /\ Finish("completed")
                                       ELSE UNCHANGED commitStatus /\ Finish("failed")
                             ELSE /\ calls' = calls \cup acc.calls
                                  /\ UNCHANGED commitStatus /\ Finish("completed")
                     ELSE /\ calls' = calls \cup acc.calls
                          /\ UNCHANGED <<hasFigmaLinks, commitStatus>>
                          /\ IF Len(links) = 0
                             THEN Finish("completed")
                             ELSE apc' = "shots" /\ UNCHANGED outcome
  /\ UNCHANGED <<mode, build, provider, missing, prThread, triggerId, screenshotUrls,
                 figmaImages, screenshots, figmaDesigns, runMatches, todo, runResults, prReport, jiraEcho,
                 succeededImages,
                 matchVars, cmpVars, pubVars, retryVars, annVars, cacheVars, deriveVars>>

\* analyze reads the PR's comments and picks the screenshots
ReadScreenshots ==
  /\ apc = "shots"
  /\ \E thread \in Threads :
       \E commentId \in {0} \cup (IF build # "dist"
                                  THEN {p \in DOMAIN thread :
                                          thread[p].qa \/ Len(thread[p].imageUrls) > 0}
                                  ELSE {}) :
         /\ prThread' = thread /\ triggerId' = commentId
         /\ screenshotUrls' = SelectScreenshots(build, thread, commentId)
         /\ IF Len(screenshotUrls') = 0
            THEN Finish("completed")
            ELSE apc' = "designs" /\ UNCHANGED outcome
  /\ calls' = calls \cup {"getPRComments"}
  /\ UNCHANGED <<mode, build, provider, missing, jiraTicketKey, uniqueFigmaLinks,
                 hasFigmaLinks, figmaImages, screenshots, figmaDesigns, runMatches, todo, runResults,
                 prReport, commitStatus, jiraEcho,
                 succeededLinks, succeededImages,
                 matchVars, cmpVars, pubVars, retryVars, annVars, cacheVars, deriveVars>>

\* analyze resolves every design link
FetchDesigns ==
  /\ apc = "designs"
  /\ \E fetched \in FetchLists(Len(uniqueFigmaLinks), MaxDesigns) :
       LET images == CollectImages(uniqueFigmaLinks, fetched)
       IN /\ succeededImages' = ImagesOfSucceeded(uniqueFigmaLinks, fetched)
          /\ IF DesignLoopThrows(build, fetched, images)
             THEN Finish("failed") /\ UNCHANGED figmaImages
             ELSE /\ figmaImages' = images
                  /\ IF Len(images) = 0
                     THEN Finish("completed")
                     ELSE apc' = "download" /\ UNCHANGED outcome
  /\ prThread' = <<>>
  /\ calls' = calls \cup {"getImagesFromUrl"}
  /\ UNCHANGED <<mode, build, provider, missing, jiraTicketKey, uniqueFigmaLinks,
                 hasFigmaLinks, triggerId, screenshotUrls, screenshots,
                 figmaDesigns, runMatches, todo, runResults,
                 prReport, commitStatus, jiraEcho,
                 succeededLinks,
                 matchVars, cmpVars, pubVars, retryVars, annVars, cacheVars, deriveVars>>

\* analyze downloads the screenshots and builds the arrays screenshots and
\* figmaDesigns; from here on only their lengths are read, and the locals
\* no later statement reads are dropped.  The src orchestrator then enters
\* its comparison loop, the dist orchestrator calls the Matcher next
DownloadScreenshots ==
  /\ apc = "download"
  /\ calls' = calls \cup {"downloadImageAsBase64"}
  /\ \E ok \in BOOLEAN :
       IF ok
       THEN /\ screenshots' = Len(screenshotUrls)
            /\ figmaDesigns' = Len(figmaImages)
            /\ screenshotUrls' = <<>> /\ figmaImages' = <<>>
            /\ uniqueFigmaLinks' = <<>> /\ triggerId' = 0
            /\ succeededLinks' = <<>> /\ succeededImages' = <<>>
            /\ IF build = "dist"
               THEN apc' = "match" /\ UNCHANGED todo
               ELSE /\ apc' = "compare"
                    /\ todo' = AllPairs(Len(screenshotUrls), Len(figmaImages))
            /\ UNCHANGED outcome
       ELSE /\ Finish("failed")
            /\ UNCHANGED <<screenshots, figmaDesigns, screenshotUrls, figmaImages,
                           uniqueFigmaLinks, triggerId, todo,
                           succeededLinks, succeededImages>>
  /\ UNCHANGED <<mode, build, provider, missing, jiraTicketKey, hasFigmaLinks,
                 prThread, runMatches, runResults, prReport, commitStatus, jiraEcho,
                 matchVars, cmpVars, pubVars, retryVars, annVars, cacheVars, deriveVars>>

\* dist: aiClient.matchScreenshotsToDesigns(screenshots, figmaDesigns)
MatchDesigns ==
  /\ apc = "match"
  /\ \E reply \in RunMatchReplies :
       /\ missing = "ai" => reply.kind = "error"
       /\ runMatches' = PairsOf(matchScreenshotsToDesigns(provider,
                                  screenshots, figmaDesigns, reply).matches)
       /\ todo' = runMatches'
  /\ apc' = "compare"
  /\ calls' = calls \cup {"matchScreenshotsToDesigns"}
  /\ UNCHANGED <<mode, build, provider, missing, outcome, jiraTicketKey,
                 uniqueFigmaLinks, hasFigmaLinks, prThread, triggerId, screenshotUrls,
                 figmaImages, screenshots, figmaDesigns, runResults, prReport,
                 commitStatus, jiraEcho, succeededLinks, succeededImages,
                 matchVars, cmpVars, pubVars, retryVars, annVars, cacheVars, deriveVars>>

\* one pass through the comparison loop.  Reading .base64 of an element
\* that does not exist throws; an error of the AI Collaborator is not
\* caught by compareUIScreenshot and ends the invocation
CompareNextPair ==
  /\ apc = "compare" /\ todo # <<>>
  /\ LET pair == Head(todo)
     IN IF ~IsIndex(pair.screenshotIndex) \/ ~IsIndex(pair.figmaIndex)
        THEN Finish("failed") /\ UNCHANGED <<todo, runResults, calls>>
        ELSE /\ calls' = calls \cup {"compareUIScreenshot"}
             /\ \E reply \in RunCompareReplies :
                  /\ missing = "ai" => reply.kind = "error"
                  /\ LET r == compareUIScreenshot(provider, reply)
                     IN IF r.raised
                        THEN Finish("failed") /\ UNCHANGED <<todo, runResults>>
                        ELSE /\ runResults' = Append(runResults,
                                  [screenshotIndex |-> pair.screenshotIndex,
                                   figmaIndex |-> pair.figmaIndex,
                                   overallMatch |-> r.overallMatch])
                             /\ todo' = Tail(todo)
                             /\ UNCHANGED <<apc, outcome>>
  /\ UNCHANGED <<mode, build, provider, missing, jiraTicketKey, uniqueFigmaLinks,
                 hasFigmaLinks, prThread, triggerId, screenshotUrls, figmaImages, screenshots, figmaDesigns, runMatches,
                 prReport, commitStatus, jiraEcho,
                 succeededLinks, succeededImages,
                 matchVars, cmpVars, pubVars, retryVars, annVars, cacheVars, deriveVars>>

\* prHandler.postComparisonResults(pullNumber, results)
PublishReport ==
  /\ apc = "compare" /\ todo = <<>>
  /\ calls' = calls \cup {"postComparisonResults"}
  /\ \E ok \in BOOLEAN :
       IF ok
       THEN prReport' = runResults /\ apc' = "status" /\ UNCHANGED outcome
       ELSE Finish("failed") /\ UNCHANGED prReport
  /\ UNCHANGED <<mode, build, provider, missing, jiraTicketKey, uniqueFigmaLinks,
                 hasFigmaLinks, prThread, triggerId, screenshotUrls, figmaImages, screenshots, figmaDesigns, runMatches,
                 todo, runResults, commitStatus, jiraEcho,
                 succeededLinks, succeededImages,
                 matchVars, cmpVars, pubVars, retryVars, annVars, cacheVars, deriveVars>>

\* prHandler.setCommitStatus(prInfo.headSha, statusState, statusDescription)
SetStatus ==
  /\ apc = "status"
  /\ calls' = calls \cup {"setCommitStatus"}
  /\ \E ok \in BOOLEAN :
       IF ok
       THEN /\ commitStatus' = CommitStatusFor(runResults)
            /\ apc' = "jira" /\ UNCHANGED outcome
       ELSE Finish("failed") /\ UNCHANGED commitStatus
  /\ UNCHANGED <<mode, build, provider, missing, jiraTicketKey, uniqueFigmaLinks,
                 hasFigmaLinks, prThread, triggerId, screenshotUrls, figmaImages, screenshots, figmaDesigns, runMatches,
                 todo, runResults, prReport, jiraEcho,
                 succeededLinks, succeededImages,
                 matchVars, cmpVars, pubVars, retryVars, annVars, cacheVars, deriveVars>>

\* the Jira comment, inside its own try/catch, and the outputs
PostToJira ==
  /\ apc = "jira"
  /\ IF jiraTicketKey = ""
     THEN UNCHANGED <<jiraEcho, calls>> /\ Finish("completed")
     ELSE /\ calls' = calls \cup {"addComment"}
          /\ \E ok \in BOOLEAN :
               IF ok
               THEN jiraEcho' = "posted" /\ Finish("completed")
               ELSE jiraEcho' = "failed" /\ Finish(AfterJiraError)
  /\ UNCHANGED <<mode, build, provider, missing, jiraTicketKey, uniqueFigmaLinks,
                 hasFigmaLinks, prThread, triggerId, screenshotUrls, figmaImages, screenshots, figmaDesigns, runMatches,
                 todo, runResults, prReport, commitStatus,
                 succeededLinks, succeededImages,
                 matchVars, cmpVars, pubVars, retryVars, annVars, cacheVars, deriveVars>>

\* the invocation is over; the next one starts from scratch
NewRun ==
  /\ apc = "done"
  /\ mode' = "analyze" /\ build' = "dist" /\ missing' = "none"
  /\ apc' = "ready" /\ outcome' = "running" /\ calls' = {}
  /\ jiraTicketKey' = "" /\ uniqueFigmaLinks' = <<>> /\ hasFigmaLinks' = "unset"
  /\ prThread' = <<>> /\ triggerId' = 0 /\ screenshotUrls' = <<>> /\ figmaImages' = <<>>
  /\ screenshots' = 0 /\ figmaDesigns' = 0
  /\ succeededLinks' = <<>> /\ succeededImages' = <<>>
  /\ runMatches' = <<>> /\ todo' = <<>> /\ runResults' = <<>>
  /\ prReport' = "none" /\ commitStatus' = NoStatus /\ jiraEcho' = "none"
  /\ provider' = "bedrock"
  /\ UNCHANGED <<matchVars, cmpVars, pubVars, retryVars, annVars, cacheVars, deriveVars>>

RunNext ==
  \/ StartRun \/ ResolveLinks \/ ReadScreenshots \/ FetchDesigns
  \/ DownloadScreenshots \/ MatchDesigns
  \/ CompareNextPair \/ PublishReport \/ SetStatus \/ PostToJira \/ NewRun

SpecRun == RunInit /\ [][RunNext]_vars

(***************************************************************************)
(* detect and analyze on one PR description: each runs its own loop over   *)
(* the ticket URLs of the description and keeps a ticket key, detect for   *)
(* its jira_ticket output, analyze for the Jira comment it posts.          *)
(***************************************************************************)
RederiveInit ==
  /\ prDescription \in Tickets \ {<<>>}
  /\ detectJiraTicket = "unset" /\ analyzeJiraTarget = "unset"
  /\ provider = "bedrock"
  /\ MatchIdle /\ CompareIdle /\ PublishIdle /\ RetryIdle /\ RunIdle /\ AnnIdle /\ CacheIdle

\* the loop over jiraUrls of mode m, with every credential configured
LoopOver(m, b, tickets) ==
  CollectLinks(m, b, tickets, FALSE,
               [key |-> "", links |-> <<>>, calls |-> {}, thrown |-> FALSE])

\* runDetectMode: core.setOutput('jira_ticket', jiraTicketKey), "thrown"
\* when the loop ends the invocation
DetectReports ==
  /\ detectJiraTicket = "unset"
  /\ \E b \in Builds :
       LET acc == LoopOver("detect", b, prDescription)
       IN detectJiraTicket' = IF acc.thrown THEN "thrown" ELSE acc.key
  /\ UNCHANGED <<prDescription, analyzeJiraTarget, provider, matchVars, cmpVars, pubVars,
                 retryVars, runVars, annVars, cacheVars>>

\* runAnalyzeMode: jiraClient.addComment(jiraTicketKey, jiraComment), ""
\* when analyze posts no comment: it found no design link and returned,
\* or it kept no key
AnalyzeTargets ==
  /\ analyzeJiraTarget = "unset"
  /\ \E b \in Builds :
       LET acc == LoopOver("analyze", b, prDescription)
       IN analyzeJiraTarget' = IF acc.thrown THEN "thrown"
                               ELSE IF Dedupe(acc.links, {}) = <<>> THEN ""
                               ELSE acc.key
  /\ UNCHANGED <<prDescription, detectJiraTicket, provider, matchVars, cmpVars, pubVars,
                 retryVars, runVars, annVars, cacheVars>>

RederiveNext == DetectReports \/ AnalyzeTargets

SpecRederive == RederiveInit /\ [][RederiveNext]_vars

(***************************************************************************)
(* Actions of the annotation renderer.                                     *)
(***************************************************************************)
AnnInit ==
  /\ annImage = Original("none") /\ annIssues = <<>>
  /\ annResult = NoAnnotation /\ annPc = "ready"
  /\ provider = "bedrock"
  /\ MatchIdle /\ CompareIdle /\ PublishIdle /\ RetryIdle /\ RunIdle /\ CacheIdle /\ DeriveIdle

\* one call createAnnotatedImage(imageBase64, issues)
Annotate ==
  /\ annPc = "ready"
  /\ \E img \in InputImages, issues \in IssueLists :
       /\ annImage' = img
       /\ annIssues' = issues
       /\ annResult' = createAnnotatedImage(img, issues)
  /\ annPc' = "done"
  /\ UNCHANGED <<provider, matchVars, cmpVars, pubVars, retryVars, runVars, cacheVars, deriveVars>>

\* the next call
NewAnnotate ==
  /\ annPc = "done"
  /\ annImage' = Original("none") /\ annIssues' = <<>>
  /\ annResult' = NoAnnotation /\ annPc' = "ready"
  /\ UNCHANGED <<provider, matchVars, cmpVars, pubVars, retryVars, runVars, cacheVars, deriveVars>>

AnnNext == Annotate \/ NewAnnotate

SpecAnnotate == AnnInit /\ [][AnnNext]_vars

(***************************************************************************)
(* Actions of the design cache, one invocation at a time: the calls of     *)
(* FigmaCache are synchronous, so inside one invocation each runs without  *)
(* interruption.                                                           *)
(***************************************************************************)
CacheInit ==
  /\ now = 0 /\ files = [p \in CachePaths |-> AbsentFile]
  /\ lastGet = NoGet /\ procs = EmptyBag
  /\ provider = "bedrock"
  /\ MatchIdle /\ CompareIdle /\ PublishIdle /\ RetryIdle /\ RunIdle /\ AnnIdle /\ DeriveIdle

\* time passes.  A set() takes Date.now() and writes in one synchronous
\* call, far shorter than a tick: the clock stands still while one is
\* between its open and its write
Tick ==
  /\ now < MaxClock
  /\ \A e \in BagToSet(procs) : e.pc # "write"
  /\ now' = now + 1
  /\ UNCHANGED <<files, lastGet, procs,
                 provider, matchVars, cmpVars, pubVars, retryVars, runVars, annVars, deriveVars>>

\* cache.get(url)
Get(url) ==
  /\ BagCardinality(procs) = 0
  /\ LET r == FigmaCacheGet(files, url, now)
     IN /\ files' = r.files
        /\ lastGet' = [url |-> url, result |-> r.result, log |-> r.log, fetched |-> FALSE]
  /\ UNCHANGED <<now, procs,
                 provider, matchVars, cmpVars, pubVars, retryVars, runVars, annVars, deriveVars>>

\* cache.set(url, data)
Set(url) ==
  /\ BagCardinality(procs) = 0
  /\ \E data \in DataFor(url), how \in WriteOutcomes :
       files' = FigmaCacheSet(files, url, data, now, how)
  /\ UNCHANGED <<now, lastGet, procs,
                 provider, matchVars, cmpVars, pubVars, retryVars, runVars, annVars, deriveVars>>

\* getImagesFromUrl(url) of an invocation that has the cache directory to
\* itself: the cached images if get returns any, else the provider is asked
\* and, unless it fails, its answer is stored
GetImagesFromUrl(url) ==
  /\ BagCardinality(procs) = 0
  /\ LET r == FigmaCacheGet(files, url, now)
     IN IF r.result # NoData
        THEN /\ files' = r.files
             /\ lastGet' = [url |-> url, result |-> r.result, log |-> r.log,
                            fetched |-> FALSE]
        ELSE /\ lastGet' = [url |-> url, result |-> r.result, log |-> r.log,
                            fetched |-> TRUE]
             /\ \/ files' = r.files
                \/ \E data \in DataFor(url), how \in WriteOutcomes :
                     files' = FigmaCacheSet(r.files, url, data, now, how)
  /\ UNCHANGED <<now, procs,
                 provider, matchVars, cmpVars, pubVars, retryVars, runVars, annVars, deriveVars>>

CacheNext ==
  \/ Tick
  \/ \E url \in CacheUrls : Get(url)
  \/ \E url \in CacheUrls : Set(url)
  \/ \E url \in CacheUrls : GetImagesFromUrl(url)

SpecCache == CacheInit /\ [][CacheNext]_vars

(***************************************************************************)
(* Actions of the design cache under concurrent invocations that share the *)
(* cache directory: every file-system call of get, delete and set is a     *)
(* step of its own, and the steps of the invocations interleave.           *)
(***************************************************************************)
Move(e, e2) == (procs (-) SetToBag({e})) (+) SetToBag({e2})
Leave(e) == procs (-) SetToBag({e})
GetReturns(e, data, log) ==
  [url |-> e.url, result |-> data, log |-> log, fetched |-> data = NoData]

\* an invocation calls getImagesFromUrl(url) and enters cache.get
StartLookup ==
  /\ BagCardinality(procs) < NProcs
  /\ \E url \in CacheUrls : procs' = procs (+) SetToBag({Proc("exists", url, 0, FALSE)})
  /\ UNCHANGED <<now, files, lastGet,
                 provider, matchVars, cmpVars, pubVars, retryVars, runVars, annVars, deriveVars>>

\* get: fs.existsSync(cachePath)
GetExists(e) ==
  /\ e.pc = "exists"
  /\ IF files[PathOf(e.url)].kind = "absent"
     THEN /\ procs' = Move(e, [e EXCEPT !.pc = "fetch"])
          /\ lastGet' = GetReturns(e, NoData, "none")
     ELSE /\ procs' = Move(e, [e EXCEPT !.pc = "read"])
          /\ UNCHANGED lastGet
  /\ UNCHANGED <<now, files,
                 provider, matchVars, cmpVars, pubVars, retryVars, runVars, annVars, deriveVars>>

\* get: fs.readFileSync, JSON.parse and isValid.  A file that has gone is
\* an error of readFileSync and a torn file an error of JSON.parse, both
\* caught; a valid entry is returned by getImagesFromUrl
GetRead(e) ==
  /\ e.pc = "read"
  /\ LET content == files[PathOf(e.url)]
     IN IF content.kind \in {"absent", "torn"}
        THEN /\ procs' = Move(e, [e EXCEPT !.pc = "fetch"])
             /\ lastGet' = GetReturns(e, NoData, "error")
        ELSE IF ~isValid(content, now)
        THEN /\ procs' = Move(e, [e EXCEPT !.pc = "delExists"])
             /\ UNCHANGED lastGet
        ELSE /\ procs' = Leave(e)
             /\ lastGet' = GetReturns(e, content.data, "hit")
  /\ UNCHANGED <<now, files,
                 provider, matchVars, cmpVars, pubVars, retryVars, runVars, annVars, deriveVars>>

\* delete, called by get for an expired entry: fs.existsSync(cachePath)
DelExists(e) ==
  /\ e.pc = "delExists"
  /\ IF files[PathOf(e.url)].kind = "absent"
     THEN /\ procs' = Move(e, [e EXCEPT !.pc = "fetch"])
          /\ lastGet' = GetReturns(e, NoData, "expired")
     ELSE /\ procs' = Move(e, [e EXCEPT !.pc = "unlink"])
          /\ UNCHANGED lastGet
  /\ UNCHANGED <<now, files,
                 provider, matchVars, cmpVars, pubVars, retryVars, runVars, annVars, deriveVars>>

\* delete: fs.unlinkSync(cachePath), whatever the file holds by now
Unlink(e) ==
  /\ e.pc = "unlink"
  /\ files' = FigmaCacheDelete(files, e.url)
  /\ procs' = OrphanAll(Move(e, [e EXCEPT !.pc = "fetch"]), e.url)
  /\ lastGet' = GetReturns(e, NoData, "expired")
  /\ UNCHANGED <<now,
                 provider, matchVars, cmpVars, pubVars, retryVars, runVars, annVars, deriveVars>>

\* the provider is asked; unless it fails, set is called and writeFileSync
\* opens the file, which creates or truncates it
FetchAndOpen(e) ==
  /\ e.pc = "fetch"
  /\ \/ procs' = Leave(e) /\ UNCHANGED files
     \/ \E data \in DataFor(e.url) :
          /\ files' = [files EXCEPT ![PathOf(e.url)] = TornFile(0)]
          /\ procs' = Move(e, Proc("write", e.url, data.nodes, FALSE))
  /\ UNCHANGED <<now, lastGet,
                 provider, matchVars, cmpVars, pubVars, retryVars, runVars, annVars, deriveVars>>

\* set: writeFileSync writes the entry at offset 0 of the file it opened
Write(e) ==
  /\ e.pc = "write"
  /\ IF e.orphan
     THEN UNCHANGED files
     ELSE files' = [files EXCEPT ![PathOf(e.url)] =
                      Overwrite(@, EntryFile(e.url, [for |-> e.url, nodes |-> e.nodes], now))]
  /\ procs' = Leave(e)
  /\ UNCHANGED <<now, lastGet,
                 provider, matchVars, cmpVars, pubVars, retryVars, runVars, annVars, deriveVars>>

RaceNext ==
  \/ Tick
  \/ StartLookup
  \/ \E e \in BagToSet(procs) : GetExists(e)
  \/ \E e \in BagToSet(procs) : GetRead(e)
  \/ \E e \in BagToSet(procs) : DelExists(e)
  \/ \E e \in BagToSet(procs) : Unlink(e)
  \/ \E e \in BagToSet(procs) : FetchAndOpen(e)
  \/ \E e \in BagToSet(procs) : Write(e)

SpecCacheRace == CacheInit /\ [][RaceNext]_vars


(***************************************************************************)
(* Claims about the matcher.                                               *)
(***************************************************************************)
Returned == mpc = "done"

\* number of matches of r whose field fld is the integer k
MatchCount(r, fld, k) ==
  Cardinality({i \in DOMAIN r.matches : r.matches[i][fld] = JsInt(k)})

\* number of positions of the sequence q that hold k
Occurrences(q, k) == Cardinality({i \in DOMAIN q : q[i] = k})

\* C2: in every result the matcher returns, no screenshotIndex and no
\* figmaIndex occurs in two matches, every screenshot index in 0..N-1 occurs
\* exactly once in the matches and unmatchedScreenshots together, and every
\* design index in 0..M-1 exactly once in the matches and
\* unmatchedFigmaDesigns together
C2_MatcherBijection ==
  Returned =>
    /\ \A i, j \in DOMAIN matchResult.matches :
         i # j => /\ matchResult.matches[i].screenshotIndex
                       # matchResult.matches[j].screenshotIndex
                  /\ matchResult.matches[i].figmaIndex
                       # matchResult.matches[j].figmaIndex
    /\ \A k \in 0..(nShots - 1) :
         MatchCount(matchResult, "screenshotIndex", k)
           + Occurrences(matchResult.unmatchedScreenshots, k) = 1
    /\ \A k \in 0..(nDesigns - 1) :
         MatchCount(matchResult, "figmaIndex", k)
           + Occurrences(matchResult.unmatchedFigmaDesigns, k) = 1

\* the collaborator named one screenshot twice and the second pair was dropped
C2_Witness ==
  /\ Returned /\ nShots = 2 /\ nDesigns = 2
  /\ aiReply.kind = "json" /\ Len(aiReply.pairs) = 2
  /\ aiReply.pairs[1].screenshotIndex = JsInt(0)
  /\ aiReply.pairs[1].figmaIndex = JsInt(1)
  /\ aiReply.pairs[2].screenshotIndex = JsInt(0)
  /\ aiReply.pairs[2].figmaIndex = JsInt(0)
  /\ Len(matchResult.matches) = 1
  /\ matchResult.unmatchedScreenshots = <<1>>
  /\ matchResult.unmatchedFigmaDesigns = <<0>>

\* C3: with exactly one screenshot and one design the matcher returns the
\* single match (0, 0) with confidence 100, nothing unmatched, and never
\* invokes the AI Collaborator
C3_SingleDirectMatch ==
  (Returned /\ nShots = 1 /\ nDesigns = 1) =>
    /\ Len(matchResult.matches) = 1
    /\ matchResult.matches[1].screenshotIndex = JsInt(0)
    /\ matchResult.matches[1].figmaIndex = JsInt(0)
    /\ matchResult.matches[1].confidence = 100
    /\ matchResult.unmatchedScreenshots = <<>>
    /\ matchResult.unmatchedFigmaDesigns = <<>>
    /\ aiCalls = 0

C3_Witness ==
  /\ Returned /\ nShots = 1 /\ nDesigns = 1
  /\ Len(matchResult.matches) = 1 /\ aiReply.kind = "notcalled"

\* C4: with exactly one screenshot and M > 1 designs the matcher returns
\* the single match (0, 0), unmatchedScreenshots empty and
\* unmatchedFigmaDesigns = [1..M-1], whatever the collaborator would answer
C4_SingleScreenshotFirstDesign ==
  (Returned /\ nShots = 1 /\ nDesigns > 1) =>
    /\ Len(matchResult.matches) = 1
    /\ matchResult.matches[1].screenshotIndex = JsInt(0)
    /\ matchResult.matches[1].figmaIndex = JsInt(0)
    /\ matchResult.unmatchedScreenshots = <<>>
    /\ Len(matchResult.unmatchedFigmaDesigns) = nDesigns - 1
    /\ \A k \in 1..(nDesigns - 1) : matchResult.unmatchedFigmaDesigns[k] = k

\* the index-order pairing: (i, i) for i < min(N, M) with confidence 50,
\* the rest of the longer side unmatched
IsOrderFallback(r, n, m) ==
  /\ Len(r.matches) = Min(n, m)
  /\ \A i \in 1..Min(n, m) :
       /\ r.matches[i].screenshotIndex = JsInt(i - 1)
       /\ r.matches[i].figmaIndex = JsInt(i - 1)
       /\ r.matches[i].confidence = 50
  /\ Len(r.unmatchedScreenshots) = n - Min(n, m)
  /\ \A k \in 1..(n - Min(n, m)) : r.unmatchedScreenshots[k] = Min(n, m) + k - 1
  /\ Len(r.unmatchedFigmaDesigns) = m - Min(n, m)
  /\ \A k \in 1..(m - Min(n, m)) : r.unmatchedFigmaDesigns[k] = Min(n, m) + k - 1

\* C5: when the matching call throws, or the response holds no parseable
\* JSON object, the matcher returns the index-order fallback
C5_FallbackOnFailure ==
  (Returned /\ aiReply.kind \in {"error", "nojson", "badjson"}) =>
    IsOrderFallback(matchResult, nShots, nDesigns)

\* the call threw with two screenshots and one design
C5_Witness ==
  /\ Returned /\ aiReply.kind = "error" /\ nShots = 2 /\ nDesigns = 1
  /\ Len(matchResult.matches) = 1
  /\ matchResult.unmatchedScreenshots = <<1>>

\* C6: with both sides non-empty, a response that parses but holds zero
\* matches yields the index-order fallback, so min(N, M) >= 1 matches
C6_FallbackOnZeroMatches ==
  (Returned /\ nShots >= 1 /\ nDesigns >= 1
     /\ aiReply.kind = "json" /\ aiReply.pairs = <<>>) =>
    /\ IsOrderFallback(matchResult, nShots, nDesigns)
    /\ Len(matchResult.matches) >= 1

\* C7: with zero screenshots and M >= 1 designs the matcher returns no
\* match, no unmatched screenshot and unmatchedFigmaDesigns = [0..M-1],
\* whatever the collaborator did
C7_NoScreenshots ==
  (Returned /\ nShots = 0 /\ nDesigns >= 1) =>
    /\ matchResult.matches = <<>>
    /\ matchResult.unmatchedScreenshots = <<>>
    /\ Len(matchResult.unmatchedFigmaDesigns) = nDesigns
    /\ \A k \in 1..nDesigns : matchResult.unmatchedFigmaDesigns[k] = k - 1

\* the collaborator answered with a pairing although there is no screenshot
C7_Witness ==
  /\ Returned /\ nShots = 0 /\ nDesigns = 2
  /\ aiReply.kind = "json" /\ Len(aiReply.pairs) >= 1
  /\ aiReply.pairs[1].screenshotIndex = JsInt(0)
  /\ aiReply.pairs[1].figmaIndex = JsInt(0)
  /\ matchResult.unmatchedFigmaDesigns = <<0, 1>>

(***************************************************************************)
(* Claims about the aggregator.                                            *)
(***************************************************************************)
Compared == cpc = "done" /\ cmpReply.kind = "json" /\ ~cmpResult.raised

HasCriticalOrMajor(issues) ==
  \E i \in DOMAIN issues : issues[i].severity \in {"critical", "major"}

\* C8: every ComparisonResult converted from a parsed collaborator response
\* with matchPercentage < 70 has overallMatch = fail, whatever status the
\* collaborator reported
C8_LowPercentageFails ==
  (Compared /\ cmpResult.matchPercentage < 70) => cmpResult.overallMatch = "fail"

\* C9: every ComparisonResult converted from a parsed collaborator response
\* with matchPercentage >= 90 and no critical or major issue has
\* overallMatch = pass, whatever status the collaborator reported
C9_HighPercentagePasses ==
  (Compared /\ cmpResult.matchPercentage >= 90
     /\ ~HasCriticalOrMajor(cmpResult.issues)) => cmpResult.overallMatch = "pass"

PublishedTwiceInARow ==
  /\ Len(pubLog) >= 2
  /\ pubLog[Len(pubLog)].op = "postComparisonResults"
  /\ pubLog[Len(pubLog) - 1] = pubLog[Len(pubLog)]

MarkedComments(marker) ==
  {i \in DOMAIN comments : Includes(comments[i].body, marker)}

\* C1: after postComparisonResults has run twice in a row with the same
\* results, from any state of the PR's comments, exactly one comment of the
\* PR contains the analysis marker
C1_IdempotentReporting ==
  PublishedTwiceInARow => Cardinality(MarkedComments(AnalysisMarker)) = 1


(***************************************************************************)
(* Claims about withRetry.                                                 *)
(***************************************************************************)
\* C11: a wrapped call that answers 429 every time is attempted at most
\* MAX_RETRIES + 1 = 6 times with at most MAX_RETRIES = 5 sleeps in between,
\* and once the sixth attempt has answered 429 the loop is over and the 429
\* failure has been thrown to the caller
C11_RetryBound ==
  /\ fnCalls <= 6
  /\ Len(sleeps) <= 5
  /\ (fnCalls = 6 /\ lastStatus = 429) => rpc = "thrown"

C11_Witness ==
  rpc = "thrown" /\ lastStatus = 429 /\ fnCalls = 6 /\ Len(sleeps) = 5

(***************************************************************************)
(* Claims about the Mode Orchestrator.                                     *)
(***************************************************************************)
AnyResult(rs, st) == \E i \in DOMAIN rs : rs[i].overallMatch = st

\* C12: the commit status analyze sets is failure iff some result is fail;
\* otherwise it is success, described as a warning when some result is
\* warning; warnings alone never give failure
C12_CommitStatusDerivation ==
  (mode = "analyze" /\ commitStatus # NoStatus) =>
    /\ prReport = runResults
    /\ AnyResult(runResults, "fail") <=> commitStatus.state = "failure"
    /\ ~AnyResult(runResults, "fail") <=> commitStatus.state = "success"
    /\ (~AnyResult(runResults, "fail") /\ AnyResult(runResults, "warning"))
         <=> commitStatus.description = "minor-issues"
    /\ (~AnyResult(runResults, "fail") /\ ~AnyResult(runResults, "warning"))
         <=> commitStatus.description = "all-passed"

C12_Witness ==
  /\ mode = "analyze" /\ commitStatus.state = "success"
  /\ commitStatus.description = "minor-issues"
  /\ AnyResult(runResults, "warning") /\ AnyResult(runResults, "pass")

\* C13: when posting the Jira comment fails, the published PR comment and
\* the commit status are left as they were and the invocation completes
\* without being marked failed
C13_JiraFailureIsSoft ==
  [][(apc = "jira" /\ jiraEcho' = "failed") =>
       /\ prReport' = prReport /\ prReport' = runResults
       /\ commitStatus' = commitStatus /\ commitStatus' # NoStatus
       /\ outcome' = "completed"]_vars

C13_Witness ==
  /\ jiraEcho = "failed" /\ outcome = "completed" /\ "addComment" \in calls
  /\ prReport = runResults /\ commitStatus.state = "failure"

\* the triggering convention: the dist orchestrator asks for "qa!" and an
\* image; the src orchestrator takes the comment named by comment-id, or
\* any comment with an image when none is named
Qualifies(c) ==
  /\ Len(c.imageUrls) > 0
  /\ build = "dist" => c.qa
  /\ (build = "src" /\ triggerId # 0) => c.id = triggerId

\* C14: the screenshots analyze goes on with are the images of exactly one
\* comment of the PR, the most recent one satisfying the triggering
\* convention
C14_MostRecentCommentOnly ==
  (apc = "designs") =>
    \E i \in DOMAIN prThread :
      /\ Qualifies(prThread[i])
      /\ screenshotUrls = prThread[i].imageUrls
      /\ \A j \in DOMAIN prThread : j > i => ~Qualifies(prThread[j])

\* C15: the report of an analyze run has one result per match the Matcher
\* committed, in match order, and no other pair; committed matches never
\* share a screenshot or a design, so no two results of a report do either
C15_OneComparisonPerMatch ==
  (mode = "analyze" /\ prReport # "none") =>
    /\ "matchScreenshotsToDesigns" \in calls =>
         /\ Len(prReport) = Len(runMatches)
         /\ \A i \in DOMAIN prReport :
              /\ prReport[i].screenshotIndex = runMatches[i].screenshotIndex
              /\ prReport[i].figmaIndex = runMatches[i].figmaIndex
    /\ \A i, j \in DOMAIN prReport :
         i # j => /\ prReport[i].screenshotIndex # prReport[j].screenshotIndex
                  /\ prReport[i].figmaIndex # prReport[j].figmaIndex

\* C19: an invocation whose configuration lacks a credential its mode
\* requires ends as failed, without any external call
C19_MissingCredentialAborts ==
  (apc # "ready" /\ missing \in RequiredFor(mode)) =>
    outcome = "failed" /\ calls = {}

\* C20: a completed detect reports has_figma_links = true exactly when its
\* deduplicated list of validated links is non-empty, and sets the pending
\* status exactly then; no detect sets a status without a link
C20_PendingIffLinks ==
  /\ (mode = "detect" /\ outcome = "completed") =>
       /\ hasFigmaLinks = "true" <=> Len(uniqueFigmaLinks) > 0
       /\ hasFigmaLinks = "false" <=> Len(uniqueFigmaLinks) = 0
       /\ commitStatus.state = "pending" <=> Len(uniqueFigmaLinks) > 0
  /\ (mode = "detect" /\ "setCommitStatus" \in calls) => Len(uniqueFigmaLinks) > 0

C20_Witness ==
  /\ mode = "detect" /\ outcome = "completed" /\ hasFigmaLinks = "true"
  /\ commitStatus.state = "pending" /\ Len(uniqueFigmaLinks) = 2

\* an issue of the list has a usable bounding box: numeric x and y
HasUsableBox(issues) ==
  \E i \in DOMAIN issues :
    /\ issues[i].boundingBox.present
    /\ issues[i].boundingBox.x[1] = "int"
    /\ issues[i].boundingBox.y[1] = "int"

\* C16: when no issue passed to createAnnotatedImage has a usable bounding
\* box (numeric x and y), the empty list included, the result carries the
\* input image bytes unchanged, an empty legend and hasAnnotations = FALSE.
C16_AnnotationNoOp ==
  (annPc = "done" /\ ~HasUsableBox(annIssues)) =>
     /\ annResult.annotatedImageBase64 = annImage
     /\ annResult.legend = <<>>
     /\ annResult.hasAnnotations = FALSE

\* a list of two issues, both with a bounding box but none usable, was rendered
C16_Witness ==
  /\ annPc = "done" /\ Len(annIssues) = 2 /\ ~HasUsableBox(annIssues)
  /\ \A i \in DOMAIN annIssues : annIssues[i].boundingBox.present
  /\ annResult.annotatedImageBase64 = annImage
  /\ annResult.hasAnnotations = FALSE

\* C17: FigmaCache.get(url) returns stored data only if an entry for the URL
\* exists whose age is less than the TTL; an entry as old as the TTL or
\* older is treated as absent: get returns null and removes it, and
\* getImagesFromUrl asks the provider again.
C17_ExpiredEntryIsAbsent ==
  [][\A url \in CacheUrls :
       (Get(url) \/ GetImagesFromUrl(url)) =>
          LET content == files[PathOf(url)]
          IN /\ lastGet'.url = url
             /\ lastGet'.result # NoData =>
                  /\ content.kind = "entry" /\ content.url = url
                  /\ now - content.timestamp < ttlMs
                  /\ lastGet'.result = content.data
             /\ (content.kind = "entry" /\ now - content.timestamp >= ttlMs) =>
                  /\ lastGet'.result = NoData
                  /\ GetImagesFromUrl(url) =>
                       /\ lastGet'.fetched
                       /\ \/ files'[PathOf(url)].kind # "entry"
                          \/ files'[PathOf(url)].timestamp = now]_vars

\* a lookup found an expired entry, asked the provider and stored the answer
C17_Witness ==
  /\ lastGet.log = "expired" /\ lastGet.result = NoData /\ lastGet.fetched
  /\ files[PathOf(lastGet.url)].kind = "entry"
  /\ files[PathOf(lastGet.url)].timestamp = now

\* C18: under every interleaving of the get, set and delete steps of
\* concurrent invocations, a lookup of a URL returns nothing or a complete
\* value stored for that same URL, never a partial value or a value stored
\* for another URL.
C18_RacesNeverCorrupt ==
  lastGet.result # NoData =>
    /\ lastGet.result \in DataFor(lastGet.url)
    /\ lastGet.log = "hit"

\* a lookup returned a cached value while another invocation was writing
\* the same file, and a file of the directory is torn
C18_Witness ==
  /\ lastGet.result \in DataFor(lastGet.url)
  /\ \E e \in BagToSet(procs) : e.pc = "write" /\ e.url = lastGet.url
  /\ \E p \in CachePaths : files[p].kind = "torn" /\ files[p].size > 0

\* C21: for every ComparisonResult the aggregator returns, whatever component
\* counts the collaborator reports (zero reference components, more found
\* than referenced), matchPercentage is an integer in 0..100.
C21_PercentageInRange ==
  (cpc = "done" /\ ~cmpResult.raised) => cmpResult.matchPercentage \in 0..100

\* C22: when the wrapped call fails with an error other than HTTP 429, on
\* whichever attempt, the error is thrown to the caller at once: no wait
\* follows it and fn is not attempted again, so every wait so far followed
\* an earlier 429.
C22_OtherErrorsPropagate ==
  lastStatus \notin {0, 200, 429} =>
    /\ rpc = "thrown"
    /\ Len(sleeps) = fnCalls - 1

\* the third attempt failed with a 500 after two rate-limit answers
C22_Witness ==
  rpc = "thrown" /\ lastStatus = 500 /\ fnCalls = 3 /\ Len(sleeps) = 2

\* the scan C23 describes: the pairs of a response kept in order, a pair being
\* kept iff its screenshot index is one of 0..n-1, its design index one of
\* 0..m-1 and neither index was used by an earlier kept pair
RECURSIVE KeptPairs(_, _, _, _, _)
KeptPairs(pairs, usedS, usedF, n, m) ==
  IF pairs = <<>> THEN <<>>
  ELSE LET p == Head(pairs)
           keep == /\ \E k \in 0..(n - 1) : p.screenshotIndex = JsInt(k)
                   /\ \E k \in 0..(m - 1) : p.figmaIndex = JsInt(k)
                   /\ p.screenshotIndex \notin usedS
                   /\ p.figmaIndex \notin usedF
       IN IF keep
          THEN <<[screenshotIndex |-> p.screenshotIndex, figmaIndex |-> p.figmaIndex]>>
               \o KeptPairs(Tail(pairs), usedS \cup {p.screenshotIndex},
                            usedF \cup {p.figmaIndex}, n, m)
          ELSE KeptPairs(Tail(pairs), usedS, usedF, n, m)

\* the matcher returned matches it accepted from the collaborator's response
AcceptedFromResponse ==
  /\ mpc = "done" /\ aiReply.kind = "json"
  /\ \A i \in DOMAIN matchResult.matches : matchResult.matches[i].reasoning = "ai"

\* C23: the matches accepted from a response are exactly the pairs kept by
\* scanning the returned pairs in order, keeping a pair iff its screenshot
\* index is in 0..N-1, its design index in 0..M-1 and neither index was used
\* by an earlier kept pair.
C23_AcceptedPairsAreTheScan ==
  AcceptedFromResponse =>
    PairsOf(matchResult.matches) = KeptPairs(aiReply.pairs, {}, {}, nShots, nDesigns)

\* C24: the confidence of every match accepted from a response equals the
\* reported confidence clamped into 0..100: above 100 it becomes 100, below
\* 0 it becomes 0, and inside the range, 0 included, it is kept.
C24_ConfidenceClamped ==
  (AcceptedFromResponse /\ Len(matchResult.matches) = 1
     /\ aiReply.pairs[1].confidence[1] = "int") =>
    matchResult.matches[1].confidence
      = Min(100, Max(0, aiReply.pairs[1].confidence[2]))

\* number of issues of the list with severity sev
CountSeverity(issues, sev) ==
  Cardinality({i \in DOMAIN issues : issues[i].severity = sev})

\* number of findings of the kind fld over all reference components
RECURSIVE SumOver(_, _)
SumOver(comps, fld) ==
  IF comps = <<>> THEN 0 ELSE Head(comps)[fld] + SumOver(Tail(comps), fld)

\* the findings a response reports, by the severity C25 gives them
ExpectedSeverityCount(d, sev) ==
  LET comps == d.reference_components
      g == d.global_issues
      reported == d.extra_components_in_input \o d.overlapping_elements
  IN CASE sev = "critical" ->
            Cardinality({i \in DOMAIN comps :
                           ~comps[i].found_in_input \/ comps[i].missing_component})
       [] sev = "major" ->
            SumOver(comps, "grammar_issues") + SumOver(comps, "major_color_differences")
              + SumOver(comps, "missing_fields") + g.grammar_issues + g.color_issues
              + Occurrences(reported, "major")
       [] OTHER ->
            SumOver(comps, "typography_issues") + g.typography_issues
              + Occurrences(reported, "minor")

\* C25: flattening a parsed response yields one ComparisonIssue per reported
\* finding, with the severity of the fixed mapping: missing component
\* critical; grammar/text, color and missing-field findings major;
\* typography findings minor; extra components and overlaps as reported
\* (here: reported as major or minor).
C25_SeverityMapping ==
  (Compared
     /\ (\A i \in DOMAIN cmpReply.detail.extra_components_in_input :
           cmpReply.detail.extra_components_in_input[i] \in {"major", "minor"})
     /\ (\A j \in DOMAIN cmpReply.detail.overlapping_elements :
           cmpReply.detail.overlapping_elements[j] \in {"major", "minor"})) =>
    \A sev \in ReportedSeverities :
      CountSeverity(cmpResult.issues, sev) = ExpectedSeverityCount(cmpReply.detail, sev)

\* issue i of the list has a usable bounding box
UsableAt(issues, i) ==
  /\ issues[i].boundingBox.present
  /\ issues[i].boundingBox.x[1] = "int"
  /\ issues[i].boundingBox.y[1] = "int"

\* position in the list of the Nth issue with a usable bounding box
NthUsable(issues, N) ==
  CHOOSE i \in DOMAIN issues :
    /\ UsableAt(issues, i)
    /\ Cardinality({j \in 1..i : UsableAt(issues, j)}) = N

\* the numbered circles composited on the image, in order
MarkerOverlays(img) ==
  SelectSeq(img.overlays, LAMBDA op : op.kind = "marker")

\* C26: markers are numbered 1..k without gaps, k the number of issues with
\* a usable bounding box; the Nth such issue in input order gets marker N,
\* issues without one consume no number, and the legend has exactly one
\* entry per marker with that issue's severity, description and location.
C26_MarkerNumbering ==
  annPc = "done" =>
    LET k == Cardinality({i \in DOMAIN annIssues : UsableAt(annIssues, i)})
        drawn == MarkerOverlays(annResult.annotatedImageBase64)
    IN /\ Len(annResult.legend) = k
       /\ Len(drawn) = k
       /\ \A N \in 1..k :
            LET issue == annIssues[NthUsable(annIssues, N)]
            IN /\ annResult.legend[N] =
                    [number |-> N, severity |-> issue.severity,
                     description |-> issue.description, location |-> issue.location]
               /\ drawn[N].number = N
               /\ drawn[N].severity = issue.severity

\* the first issue has no usable bounding box and the second, which has
\* one, got marker 1
C26_Witness ==
  /\ annPc = "done" /\ Len(annIssues) = 2
  /\ ~UsableAt(annIssues, 1) /\ UsableAt(annIssues, 2)
  /\ annIssues[1].boundingBox.present
  /\ Len(annResult.legend) = 1 /\ annResult.legend[1].number = 1
  /\ annResult.legend[1].description = annIssues[2].description

\* the calls made up to the end of the loop over the design links
LoopCalls ==
  {"getPRInfo", "getTicketContent", "extractFigmaLinks", "getPRComments",
   "getImagesFromUrl"}

\* C27: in detect and analyze a ticket that cannot be read or a design link
\* that cannot be resolved does not end the invocation: no run fails inside
\* the two loops, the links of the tickets that were read are the links the
\* run goes on with, and the images of the design links that were resolved
\* are the images it compares
C27_PartialFailuresContinue ==
  /\ outcome = "failed" => (calls = {} \/ ~(calls \subseteq LoopCalls))
  /\ succeededLinks # <<>> => uniqueFigmaLinks = succeededLinks
  /\ succeededImages # <<>> => figmaImages = succeededImages

\* every concurrent publish call has made both its requests
AllPublished ==
  publishers # <<>> /\ \A p \in DOMAIN publishers : publishers[p].pc = "done"

\* C28: when invocations publish to one PR concurrently, each listing the
\* comments and then creating or updating, then under every interleaving
\* of their requests the PR, its comments all within the listed page, ends
\* with at most one comment containing each marker
C28_AtMostOneMarkerComment ==
  (AllPublished /\ Len(comments) <= PerPage) =>
    \A op \in PublishOps : Cardinality(MarkedComments(MarkerOf(op))) <= 1

\* C29: a publish step changes no comment but one the publisher created
\* with the same marker: comments written by people, also those quoting a
\* marker, and the publisher's comments of the other kind keep their body
C29_PublishTouchesOwnCommentOnly ==
  [][\A i \in DOMAIN comments :
       comments'[i] # comments[i] =>
         /\ comments[i].author = "bot"
         /\ comments'[i].body.markers = comments[i].body.markers]_vars

\* detect has set its output and analyze has a ticket to comment on
BothDerived ==
  /\ detectJiraTicket \notin {"unset", "thrown"}
  /\ analyzeJiraTarget \notin {"unset", "thrown", ""}

\* C30: for one PR description with several ticket links, the ticket key
\* detect reports as jira_ticket is the key of the ticket analyze posts its
\* Jira comment to
C30_SameTicketKey ==
  BothDerived => detectJiraTicket = analyzeJiraTarget

====
